---- MODULE Spec2Model ----
(***************************************************************************)
(* The notebooks of the repository as state machines: the kernel's global  *)
(* variables are the state, every statement group of a code cell is an     *)
(* action, and the helper functions the cells define and the library calls *)
(* they rest on are operators.  Each notebook has its own specification:   *)
(*   Spec      HEAL-notebooks/.../BACPAC_Synthetic_Data_Analysis.ipynb     *)
(*   SpecACTT1 BRH-notebooks/.../ACTT1_accessclinical.ipynb, the survival  *)
(*             analysis of ACTT1.csv                                       *)
(*   SpecAcquire  the cells of both notebooks that fetch data              *)
(*   SpecCells    the names every cell binds and modifies                  *)
(*   SpecTCGA     ACTT1_accessclinical.ipynb, merge_rna of the TCGA cells  *)
(*                and the differential expression call                     *)
(*   SpecURL      ACTT1_accessclinical.ipynb, gdcGetURL_new                *)
(*                                                                         *)
(* A Python value is a record [kind, s, n]: a str carries its characters   *)
(* in s (a sequence of one-character strings), an int its value in n, and  *)
(* the float NaN pandas stores for a missing cell is NaN.  A table is its   *)
(* set of column names and its sequence of rows, a row being a function    *)
(* from the column names to values.                                        *)
(***************************************************************************)
EXTENDS Integers, Sequences, FiniteSets, TLC

VARIABLES
    pc,                        \* the statement the kernel runs next
    raised,                    \* the exception that ended the run, and where
    demo_bacpac,               \* participant_SMART.tsv, plus age_group
    age_list,                  \* list(demo_bacpac["age_in_years"])
    agegrouplist,              \* the list age_group returned
    df1, df2, df3,             \* race x sex, ethnicity x sex, age_group x sex
    substance_df,              \* substance_use_SMART.tsv, plus participant_id
    substance_participant_id,  \* the list find_participant returned
    demo_combine_substance,    \* substance_df merged with demo_bacpac
    opioid_crosstab,           \* OPIOID01 x time_point
    function_df,               \* physical_function_SMART.tsv, plus participant_id
    function_participant_id,   \* the list find_participant returned
    demo_combine_function,     \* function_df merged with demo_bacpac
    rederived,                 \* the list a derivation returned on its own output
    data,                      \* ACTT1.csv as read by the ACTT1 notebook
    fits,                      \* what each fitter was handed, in order
    clinical_status_list,      \* the sorted baseline scores of the panels
    loop_i,                    \* i of enumerate(clinical_status_list)
    data1,                     \* data after the recoding of the wrangling cell
    X,                         \* the design matrix of the Cox model
    files,                     \* the files of the working directory
    ran,                       \* the command lines run so far, with their exit
    response,                  \* what requests.get returned
    metadata_object,           \* json.loads(response.text)
    meta_df,                   \* the flattened study metadata
    notebook,                  \* the notebook whose cells the kernel runs
    effect_i,                  \* how many of its statements have run
    namespace,                 \* for every name, the cell that created its value
    foreign,                   \* the modifications of another cell's value
    metaMatrix_RNA,            \* metaMatrix.RNA, the metadata of the samples
    filelist,                  \* the quantification files merge_rna listed
    merge_i,                   \* i of merge_rna's loop over filelist
    combined_df,               \* the table merge_rna has merged so far
    rnaCounts,                 \* what merge_rna returned
    DEGAll_CHOL,               \* the count columns as gdcDEAnalysis labels them
    url                        \* a call of gdcGetURL_new: arguments and value

\* The variables of each notebook's kernel.
bacpacVars == <<demo_bacpac, age_list, agegrouplist, df1, df2, df3,
                substance_df, substance_participant_id,
                demo_combine_substance, opioid_crosstab, function_df,
                function_participant_id, demo_combine_function, rederived>>
acttVars == <<data, fits, clinical_status_list, loop_i, data1, X>>

acquireVars == <<files, ran, response, metadata_object, meta_df>>

cellVars == <<notebook, effect_i, namespace, foreign>>

tcgaVars == <<metaMatrix_RNA, filelist, merge_i, combined_df, rnaCounts,
              DEGAll_CHOL, url>>

vars == <<pc, raised, bacpacVars, acttVars, acquireVars, cellVars, tcgaVars>>

\* What a cell of one notebook leaves alone: the kernels of the others.
beyondBACPAC == <<acttVars, acquireVars, cellVars, tcgaVars>>
beyondACTT1 == <<bacpacVars, acquireVars, cellVars, tcgaVars>>

-----------------------------------------------------------------------------
(* Bounds of the model.                                                    *)

MaxDemoRows == 2
MaxSubstanceRows == 2
MaxFunctionRows == 1

-----------------------------------------------------------------------------
(* Python values.                                                          *)

NaN == [kind |-> "nan", s |-> <<>>, n |-> 0]
PyStr(chars) == [kind |-> "str", s |-> chars, n |-> 0]
PyInt(i) == [kind |-> "int", s |-> <<>>, n |-> i]

notna(v) == v.kind # "nan"

\* The decimal digits of a natural number, most significant first.
RECURSIVE Digits(_)
Digits(i) ==
    LET d == <<"0", "1", "2", "3", "4", "5", "6", "7", "8", "9">>[(i % 10) + 1]
    IN  IF i < 10 THEN <<d>> ELSE Append(Digits(i \div 10), d)

\* str(v) of an int or of a str.
str(v) == IF v.kind = "int" THEN Digits(v.n) ELSE v.s

\* s.rstrip(chars): chars is a SET of characters, and every trailing
\* character of s that belongs to it is removed, one at a time.
RECURSIVE rstrip(_, _)
rstrip(s, chars) ==
    IF s # <<>> /\ s[Len(s)] \in {chars[k] : k \in 1..Len(chars)}
    THEN rstrip(SubSeq(s, 1, Len(s) - 1), chars)
    ELSE s

\* endswith that wants s longer than the suffix.
endswith_proper(s, suffix) ==
    /\ Len(s) > Len(suffix)
    /\ SubSeq(s, Len(s) - Len(suffix) + 1, Len(s)) = suffix

\* s.endswith(suffix)
endswith(s, suffix) ==
    /\ Len(s) >= Len(suffix)
    /\ SubSeq(s, Len(s) - Len(suffix) + 1, Len(s)) = suffix

\* A DataFrame: its column names and its rows, each row a function from the
\* column names to values.
DataFrame(columns, rows) == [columns |-> columns, rows |-> rows]

\* The list of a column of a table: list(mydf[col]).
Column(mydf, col) == [k \in 1..Len(mydf.rows) |-> mydf.rows[k][col]]

\* mydf[col] = values: the column is added (or replaced), the others kept.
SetColumn(mydf, col, values) ==
    DataFrame(mydf.columns \cup {col},
              [k \in 1..Len(mydf.rows) |->
                  [c \in mydf.columns \cup {col} |->
                      IF c = col THEN values[k] ELSE mydf.rows[k][c]]])

\* What a call returned: the exception it raised ("" if none) and its value.
Returned(value) == [raised |-> "", value |-> value]
Raised(exception) == [raised |-> exception, value |-> <<>>]

-----------------------------------------------------------------------------
(* The literals of the notebook.                                           *)

Week0 == <<"W", "e", "e", "k", " ", "0">>
Week12 == <<"W", "e", "e", "k", " ", "1", "2">>
Suffix55yr == <<"-", "5", "5", " ", "y", "r">>
Over55yr == <<">", "5", "5", " ", "y", "r">>
EndstrSc == <<"_", "s", "c">>
EndstrPf == <<"_", "p", "f">>

-----------------------------------------------------------------------------
(* The functions the cells define.                                         *)

\* min(agelist) of a non-empty list of ints: the first smallest element.
min(agelist) ==
    agelist[CHOOSE k \in 1..Len(agelist) :
                /\ \A j \in 1..Len(agelist) : agelist[k].n <= agelist[j].n
                /\ \A j \in 1..(k - 1) : agelist[j].n > agelist[k].n]

\* age_group with "i < 55" for "i <= 55".
age_group_lt(agelist) ==
    IF agelist = <<>> THEN Raised("ValueError")
    ELSE IF \E k \in 1..Len(agelist) : agelist[k].kind = "str"
    THEN Raised("TypeError")
    ELSE LET grouplabel1 == PyStr(str(min(agelist)) \o Suffix55yr)
             grouplabel2 == PyStr(Over55yr)
         IN  Returned([k \in 1..Len(agelist) |->
                 IF agelist[k].n < 55 THEN grouplabel1 ELSE grouplabel2])

\* age_group where a str compares greater than every int (Python 2) instead
\* of raising: a label falls in the ">55 yr" bucket.
age_group_py2(agelist) ==
    IF agelist = <<>> THEN Raised("ValueError")
    ELSE LET strs == \E k \in 1..Len(agelist) : agelist[k].kind = "str"
             grouplabel1 == PyStr((IF strs THEN agelist[1].s
                                   ELSE str(min(agelist))) \o Suffix55yr)
             grouplabel2 == PyStr(Over55yr)
         IN  Returned([k \in 1..Len(agelist) |->
                 IF agelist[k].kind = "int" /\ agelist[k].n <= 55
                 THEN grouplabel1 ELSE grouplabel2])

\* age_group(agelist).  min() of an empty list raises ValueError; the
\* comparison "i <= 55" of a str with an int raises TypeError (Python 3).
age_group(agelist) ==
    IF agelist = <<>> THEN Raised("ValueError")
    ELSE IF \E k \in 1..Len(agelist) : agelist[k].kind = "str"
    THEN Raised("TypeError")
    ELSE LET min_age == min(agelist)
             grouplabel1 == PyStr(str(min_age) \o Suffix55yr)
             grouplabel2 == PyStr(Over55yr)
         IN  Returned([k \in 1..Len(agelist) |->
                 IF agelist[k].n <= 55 THEN grouplabel1 ELSE grouplabel2])

\* find_participant with participant_id.insert(0, ...) for append.
find_participant_insert(mydf, endstr) ==
    [k \in 1..Len(mydf.rows) |->
        PyStr(rstrip(mydf.rows[Len(mydf.rows) + 1 - k]["submitter_id"].s,
                     endstr))]

\* find_participant(mydf, endstr): one identifier per row, in row order.
find_participant(mydf, endstr) ==
    [k \in 1..Len(mydf.rows) |->
        PyStr(rstrip(mydf.rows[k]["submitter_id"].s, endstr))]

\* find_timepoint with i.endswith("0") for i.endswith("Week 0").
find_timepoint_0(mydf) ==
    LET labels == Column(mydf, "visits.submitter_id")
    IN  IF \E k \in 1..Len(labels) : labels[k].kind # "str"
        THEN Raised("AttributeError")
        ELSE Returned([k \in 1..Len(labels) |->
                 IF endswith(labels[k].s, <<"0">>)
                 THEN PyStr(Week0) ELSE PyStr(Week12)])

\* find_timepoint(mydf).  A missing label is the float NaN, which has no
\* endswith: AttributeError.
find_timepoint(mydf) ==
    LET labels == Column(mydf, "visits.submitter_id")
    IN  IF \E k \in 1..Len(labels) : labels[k].kind # "str"
        THEN Raised("AttributeError")
        ELSE Returned([k \in 1..Len(labels) |->
                 IF endswith(labels[k].s, Week0)
                 THEN PyStr(Week0) ELSE PyStr(Week12)])

-----------------------------------------------------------------------------
(* The pandas calls of the cells.                                          *)

\* The name a column keeps in a merge: one that both tables have gets the
\* side's suffix ("_x" left, "_y" right).
MergedName(c, overlap, suffix) == IF c \in overlap THEN c \o suffix ELSE c

\* A row of one side under its merged column names; a missing side (no
\* matching row) is NaN in every column.
MergedSide(columns, overlap, suffix, row, present) ==
    [d \in {MergedName(c, overlap, suffix) : c \in columns} |->
        IF present
        THEN row[CHOOSE c \in columns : MergedName(c, overlap, suffix) = d]
        ELSE NaN]

\* The rows of the outer join that left rows k.. give: each left row with
\* every right row of the same key, or alone when no right row has its key.
RECURSIVE LeftJoinRows(_, _, _, _, _)
LeftJoinRows(left, right, left_on, right_on, k) ==
    IF k > Len(left.rows) THEN <<>>
    ELSE LET overlap == left.columns \cap right.columns
             l == MergedSide(left.columns, overlap, "_x", left.rows[k], TRUE)
             matches == SelectSeq(right.rows,
                           LAMBDA r : r[right_on] = left.rows[k][left_on])
             joined == IF matches = <<>>
                       THEN <<l @@ MergedSide(right.columns, overlap, "_y",
                                              l, FALSE)>>
                       ELSE [j \in 1..Len(matches) |->
                                l @@ MergedSide(right.columns, overlap, "_y",
                                                matches[j], TRUE)]
         IN  joined \o LeftJoinRows(left, right, left_on, right_on, k + 1)

\* left.merge(right, left_on=..., right_on=..., how="inner"): the rows of
\* the outer join that have both sides.
merge_inner(left, right, left_on, right_on) ==
    LET overlap == left.columns \cap right.columns
        rightKeys == {right.rows[j][right_on] : j \in 1..Len(right.rows)}
    IN  DataFrame(
            {MergedName(c, overlap, "_x") : c \in left.columns}
                \cup {MergedName(c, overlap, "_y") : c \in right.columns},
            SelectSeq(LeftJoinRows(left, right, left_on, right_on, 1),
                      LAMBDA row : row[left_on] \in rightKeys))

\* left.merge(right, left_on=..., right_on=..., how="outer"): the left rows
\* with their matches and the right rows whose key no left row has.  Both
\* key columns are kept.  The rows are listed left table first; no cell
\* reads the joined table by position, only row by row and by counting.
merge(left, right, left_on, right_on) ==
    LET overlap == left.columns \cap right.columns
        leftKeys == {left.rows[k][left_on] : k \in 1..Len(left.rows)}
        rightOnly == SelectSeq(right.rows,
                               LAMBDA r : r[right_on] \notin leftKeys)
    IN  DataFrame(
            {MergedName(c, overlap, "_x") : c \in left.columns}
                \cup {MergedName(c, overlap, "_y") : c \in right.columns},
            LeftJoinRows(left, right, left_on, right_on, 1)
                \o [j \in 1..Len(rightOnly) |->
                       MergedSide(left.columns, overlap, "_x",
                                  rightOnly[j], FALSE)
                       @@ MergedSide(right.columns, overlap, "_y",
                                     rightOnly[j], TRUE)])

\* pd.crosstab that counts a row with a missing value under the value NaN.
crosstab_keepna(index, columns) ==
    LET kept == 1..Len(index)
    IN  [cell \in {index[k] : k \in kept} \X {columns[k] : k \in kept} |->
            Cardinality({k \in kept : /\ index[k] = cell[1]
                                      /\ columns[k] = cell[2]})]

\* pd.crosstab(index=..., columns=...): the rows with a value in both
\* columns, counted by their pair of values.
crosstab(index, columns) ==
    LET kept == {k \in 1..Len(index) : notna(index[k]) /\ notna(columns[k])}
    IN  [cell \in {index[k] : k \in kept} \X {columns[k] : k \in kept} |->
            Cardinality({k \in kept : /\ index[k] = cell[1]
                                      /\ columns[k] = cell[2]})]

-----------------------------------------------------------------------------
(* The files the cells read.  Every table of up to the bound's rows, the   *)
(* rows drawn from a few that cover the cases: identifiers ending in a     *)
(* character of the suffix, keys with, without and with part of the        *)
(* suffix, visit labels ending and not ending in "Week 0", missing cells.  *)

P1 == <<"P", "1">>
P2 == <<"P", "2">>
Pc == <<"P", "c">>
Female == <<"F", "e", "m", "a", "l", "e">>
Male == <<"M", "a", "l", "e">>
White == <<"W", "h", "i", "t", "e">>
Asian == <<"A", "s", "i", "a", "n">>
Hispanic == <<"H", "i", "s", "p", "a", "n", "i", "c">>
NotHispanic == <<"N", "o", "t", " ">> \o Hispanic
Yes == <<"Y", "e", "s">>
No == <<"N", "o">>
Week10 == <<"W", "e", "e", "k", " ", "1", "0">>
V1Week0 == <<"V", "1", " ">> \o Week0

\* The tables of at most n rows drawn from rows.
Tables(columns, rows, n) ==
    {DataFrame(columns, r) : r \in UNION {[1..m -> rows] : m \in 0..n}}

DemoColumns == {"submitter_id", "age_in_years", "sex", "race", "ethnicity"}

DemoRow(id, age, sex, race, ethnicity) ==
    [c \in DemoColumns |->
        CASE c = "submitter_id" -> PyStr(id)
          [] c = "age_in_years" -> PyInt(age)
          [] c = "sex" -> sex
          [] c = "race" -> race
          [] c = "ethnicity" -> ethnicity]

DemoRows ==
    { DemoRow(P1, 40, PyStr(Female), PyStr(White), PyStr(Hispanic)),
      DemoRow(P2, 55, PyStr(Male), NaN, PyStr(NotHispanic)),
      DemoRow(Pc, 56, NaN, PyStr(Asian), NaN) }

LeftRow(measure, key, visit, value) ==
    [c \in {"submitter_id", "visits.submitter_id", measure} |->
        CASE c = "submitter_id" -> PyStr(key)
          [] c = "visits.submitter_id" -> PyStr(visit)
          [] OTHER -> value]

SubstanceColumns == {"submitter_id", "visits.submitter_id", "OPIOID01"}

SubstanceRows ==
    { LeftRow("OPIOID01", P1 \o EndstrSc, Week0, PyStr(Yes)),
      LeftRow("OPIOID01", P2 \o EndstrSc, Week12, PyStr(No)),
      LeftRow("OPIOID01", Pc \o EndstrSc, V1Week0, PyStr(Yes)),
      LeftRow("OPIOID01", P1 \o <<"_", "c">>, Week10, NaN),
      LeftRow("OPIOID01", P2, Week12, PyStr(No)) }

FunctionColumns == {"submitter_id", "visits.submitter_id", "PRPF6BT"}

FunctionRows ==
    { LeftRow("PRPF6BT", P1 \o EndstrPf, Week0, PyInt(45)),
      LeftRow("PRPF6BT", P2 \o EndstrPf, Week12, PyInt(50)),
      LeftRow("PRPF6BT", P1 \o EndstrSc, V1Week0, NaN) }

-----------------------------------------------------------------------------
(* The kernel before the first cell: no name is bound.                     *)

Unbound == DataFrame({}, <<>>)
NotRaised == [statement |-> "", exception |-> ""]

\* A kernel that has not started.
IdleBACPAC ==
    /\ demo_bacpac = Unbound
    /\ age_list = <<>>
    /\ agegrouplist = <<>>
    /\ df1 = <<>>
    /\ df2 = <<>>
    /\ df3 = <<>>
    /\ substance_df = Unbound
    /\ substance_participant_id = <<>>
    /\ demo_combine_substance = Unbound
    /\ opioid_crosstab = <<>>
    /\ function_df = Unbound
    /\ function_participant_id = <<>>
    /\ demo_combine_function = Unbound
    /\ rederived = <<>>

IdleACTT1 ==
    /\ data = Unbound
    /\ fits = <<>>
    /\ clinical_status_list = <<>>
    /\ loop_i = 0
    /\ data1 = Unbound
    /\ X = [TTRECOV |-> <<>>, RECCNSR |-> <<>>]

\* No acquisition cell has run.
IdleAcquire ==
    /\ files = {}
    /\ ran = <<>>
    /\ response = [status_code |-> 0, text |-> [json |-> FALSE, object |-> <<>>]]
    /\ metadata_object = <<>>
    /\ meta_df = Unbound

\* No cell is followed name by name.
IdleCells ==
    /\ notebook = ""
    /\ effect_i = 0
    /\ namespace = <<>>
    /\ foreign = {}

\* The R kernel of the TCGA analysis has bound nothing.
IdleTCGA ==
    /\ metaMatrix_RNA = <<>>
    /\ filelist = <<>>
    /\ merge_i = 0
    /\ combined_df = [class |-> "NULL", names |-> <<>>, row_names |-> <<>>,
                      rows |-> <<>>]
    /\ rnaCounts = [class |-> "NULL", names |-> <<>>, row_names |-> <<>>,
                    rows |-> <<>>]
    /\ DEGAll_CHOL = <<>>
    /\ url = [project_id |-> <<>>, data_type |-> <<>>, value |-> <<>>]

Init ==
    /\ pc = "read_demo"
    /\ raised = NotRaised
    /\ IdleACTT1
    /\ IdleAcquire
    /\ IdleCells
    /\ IdleTCGA
    /\ demo_bacpac = Unbound
    /\ age_list = <<>>
    /\ agegrouplist = <<>>
    /\ df1 = <<>>
    /\ df2 = <<>>
    /\ df3 = <<>>
    /\ substance_df = Unbound
    /\ substance_participant_id = <<>>
    /\ demo_combine_substance = Unbound
    /\ opioid_crosstab = <<>>
    /\ function_df = Unbound
    /\ function_participant_id = <<>>
    /\ demo_combine_function = Unbound
    /\ rederived = <<>>

\* An exception ends the cell: nothing after the raising statement runs.
Raise(statement, exception) ==
    /\ pc' = "raised"
    /\ raised' = [statement |-> statement, exception |-> exception]

-----------------------------------------------------------------------------
(* Cell aa10903e: demographic characteristics.                             *)

\* demo_bacpac = pd.read_csv("./participant_SMART.tsv", ...)
ReadDemo ==
    /\ pc = "read_demo"
    /\ UNCHANGED beyondBACPAC
    /\ \E table \in Tables(DemoColumns, DemoRows, MaxDemoRows) :
           demo_bacpac' = table
    /\ pc' = "age_group"
    /\ UNCHANGED <<raised, age_list, agegrouplist, df1, df2, df3, substance_df,
                   substance_participant_id, demo_combine_substance,
                   opioid_crosstab, function_df, function_participant_id,
                   demo_combine_function, rederived>>

\* age_list = list(...); agegrouplist = age_group(age_list);
\* demo_bacpac["age_group"] = agegrouplist
DeriveAgeGroup ==
    /\ pc = "age_group"
    /\ UNCHANGED beyondBACPAC
    /\ age_list' = Column(demo_bacpac, "age_in_years")
    /\ LET call == age_group(age_list')
       IN  IF call.raised # ""
           THEN /\ Raise("age_group", call.raised)
                /\ UNCHANGED <<agegrouplist, demo_bacpac>>
           ELSE /\ agegrouplist' = call.value
                /\ demo_bacpac' = SetColumn(demo_bacpac, "age_group", call.value)
                /\ pc' = "demo_crosstab"
                /\ UNCHANGED raised
    /\ UNCHANGED <<df1, df2, df3, substance_df, substance_participant_id,
                   demo_combine_substance, opioid_crosstab, function_df,
                   function_participant_id, demo_combine_function, rederived>>

\* df1, df2, df3 = pd.crosstab(...)
DemoCrosstab ==
    /\ pc = "demo_crosstab"
    /\ UNCHANGED beyondBACPAC
    /\ df1' = crosstab(Column(demo_bacpac, "race"), Column(demo_bacpac, "sex"))
    /\ df2' = crosstab(Column(demo_bacpac, "ethnicity"),
                       Column(demo_bacpac, "sex"))
    /\ df3' = crosstab(Column(demo_bacpac, "age_group"),
                       Column(demo_bacpac, "sex"))
    /\ pc' = "read_substance"
    /\ UNCHANGED <<raised, demo_bacpac, age_list, agegrouplist, substance_df,
                   substance_participant_id, demo_combine_substance,
                   opioid_crosstab, function_df, function_participant_id,
                   demo_combine_function, rederived>>

\* The derivation run again on the column it derived:
\* age_group(list(demo_bacpac["age_group"])).
RederiveAgeGroup ==
    /\ pc = "read_substance"
    /\ UNCHANGED beyondBACPAC
    /\ LET call == age_group(Column(demo_bacpac, "age_group"))
       IN  IF call.raised # ""
           THEN /\ Raise("rederive_age_group", call.raised)
                /\ UNCHANGED rederived
           ELSE /\ rederived' = call.value
                /\ pc' = "rederived_age_group"
                /\ UNCHANGED raised
    /\ UNCHANGED <<demo_bacpac, age_list, agegrouplist, df1, df2, df3,
                   substance_df, substance_participant_id,
                   demo_combine_substance, opioid_crosstab, function_df,
                   function_participant_id, demo_combine_function>>

-----------------------------------------------------------------------------
(* Cell 2474b227: opioid use at two time points.                           *)

\* substance_df = pd.read_csv("./substance_use_SMART.tsv", ...)
ReadSubstance ==
    /\ pc = "read_substance"
    /\ UNCHANGED beyondBACPAC
    /\ \E table \in Tables(SubstanceColumns, SubstanceRows, MaxSubstanceRows) :
           substance_df' = table
    /\ pc' = "substance_participant"
    /\ UNCHANGED <<raised, demo_bacpac, age_list, agegrouplist, df1, df2, df3,
                   substance_participant_id, demo_combine_substance,
                   opioid_crosstab, function_df, function_participant_id,
                   demo_combine_function, rederived>>

\* substance_participant_id = find_participant(substance_df, "_sc");
\* substance_df["participant_id"] = substance_participant_id
SubstanceParticipant ==
    /\ pc = "substance_participant"
    /\ UNCHANGED beyondBACPAC
    /\ substance_participant_id' = find_participant(substance_df, EndstrSc)
    /\ substance_df' = SetColumn(substance_df, "participant_id",
                                 substance_participant_id')
    /\ pc' = "substance_merge"
    /\ UNCHANGED <<raised, demo_bacpac, age_list, agegrouplist, df1, df2, df3,
                   demo_combine_substance, opioid_crosstab, function_df,
                   function_participant_id, demo_combine_function, rederived>>

\* demo_combine_substance = substance_df.merge(demo_bacpac, ..., how="outer")
SubstanceMerge ==
    /\ pc = "substance_merge"
    /\ UNCHANGED beyondBACPAC
    /\ demo_combine_substance' =
           merge(substance_df, demo_bacpac, "participant_id", "submitter_id")
    /\ pc' = "substance_timepoint"
    /\ UNCHANGED <<raised, demo_bacpac, age_list, agegrouplist, df1, df2, df3,
                   substance_df, substance_participant_id, opioid_crosstab,
                   function_df, function_participant_id, demo_combine_function,
                   rederived>>

\* demo_combine_substance["time_point"] = find_timepoint(demo_combine_substance)
SubstanceTimepoint ==
    /\ pc = "substance_timepoint"
    /\ UNCHANGED beyondBACPAC
    /\ LET call == find_timepoint(demo_combine_substance)
       IN  IF call.raised # ""
           THEN /\ Raise("substance_timepoint", call.raised)
                /\ UNCHANGED demo_combine_substance
           ELSE /\ demo_combine_substance' =
                       SetColumn(demo_combine_substance, "time_point",
                                 call.value)
                /\ pc' = "opioid_crosstab"
                /\ UNCHANGED raised
    /\ UNCHANGED <<demo_bacpac, age_list, agegrouplist, df1, df2, df3,
                   substance_df, substance_participant_id, opioid_crosstab,
                   function_df, function_participant_id, demo_combine_function,
                   rederived>>

\* opioid_crosstab = pd.crosstab(index=...['OPIOID01'], columns=...['time_point'])
OpioidCrosstab ==
    /\ pc = "opioid_crosstab"
    /\ UNCHANGED beyondBACPAC
    /\ opioid_crosstab' = crosstab(Column(demo_combine_substance, "OPIOID01"),
                                   Column(demo_combine_substance, "time_point"))
    /\ pc' = "read_function"
    /\ UNCHANGED <<raised, demo_bacpac, age_list, agegrouplist, df1, df2, df3,
                   substance_df, substance_participant_id,
                   demo_combine_substance, function_df,
                   function_participant_id, demo_combine_function, rederived>>

\* The derivation run again on the column it derived: find_timepoint of the
\* table whose visit labels are the time_point column.
RederiveTimepoint ==
    /\ pc = "read_function"
    /\ UNCHANGED beyondBACPAC
    /\ LET call == find_timepoint(
                       SetColumn(demo_combine_substance, "visits.submitter_id",
                                 Column(demo_combine_substance, "time_point")))
       IN  IF call.raised # ""
           THEN /\ Raise("rederive_timepoint", call.raised)
                /\ UNCHANGED rederived
           ELSE /\ rederived' = call.value
                /\ pc' = "rederived_timepoint"
                /\ UNCHANGED raised
    /\ UNCHANGED <<demo_bacpac, age_list, agegrouplist, df1, df2, df3,
                   substance_df, substance_participant_id,
                   demo_combine_substance, opioid_crosstab, function_df,
                   function_participant_id, demo_combine_function>>

-----------------------------------------------------------------------------
(* Cell b483c4ac: physical function outcomes.                              *)

\* function_df = pd.read_csv("./physical_function_SMART.tsv", ...)
ReadFunction ==
    /\ pc = "read_function"
    /\ UNCHANGED beyondBACPAC
    /\ \E table \in Tables(FunctionColumns, FunctionRows, MaxFunctionRows) :
           function_df' = table
    /\ pc' = "function_participant"
    /\ UNCHANGED <<raised, demo_bacpac, age_list, agegrouplist, df1, df2, df3,
                   substance_df, substance_participant_id,
                   demo_combine_substance, opioid_crosstab,
                   function_participant_id, demo_combine_function, rederived>>

\* function_participant_id = find_participant(function_df, "_pf");
\* function_df["participant_id"] = function_participant_id
FunctionParticipant ==
    /\ pc = "function_participant"
    /\ UNCHANGED beyondBACPAC
    /\ function_participant_id' = find_participant(function_df, EndstrPf)
    /\ function_df' = SetColumn(function_df, "participant_id",
                                function_participant_id')
    /\ pc' = "function_merge"
    /\ UNCHANGED <<raised, demo_bacpac, age_list, agegrouplist, df1, df2, df3,
                   substance_df, substance_participant_id,
                   demo_combine_substance, opioid_crosstab,
                   demo_combine_function, rederived>>

\* demo_combine_function = function_df.merge(demo_bacpac, ..., how="outer")
FunctionMerge ==
    /\ pc = "function_merge"
    /\ UNCHANGED beyondBACPAC
    /\ demo_combine_function' =
           merge(function_df, demo_bacpac, "participant_id", "submitter_id")
    /\ pc' = "function_timepoint"
    /\ UNCHANGED <<raised, demo_bacpac, age_list, agegrouplist, df1, df2, df3,
                   substance_df, substance_participant_id,
                   demo_combine_substance, opioid_crosstab, function_df,
                   function_participant_id, rederived>>

\* demo_combine_function["time_point"] = find_timepoint(demo_combine_function)
FunctionTimepoint ==
    /\ pc = "function_timepoint"
    /\ UNCHANGED beyondBACPAC
    /\ LET call == find_timepoint(demo_combine_function)
       IN  IF call.raised # ""
           THEN /\ Raise("function_timepoint", call.raised)
                /\ UNCHANGED demo_combine_function
           ELSE /\ demo_combine_function' =
                       SetColumn(demo_combine_function, "time_point",
                                 call.value)
                /\ pc' = "done"
                /\ UNCHANGED raised
    /\ UNCHANGED <<demo_bacpac, age_list, agegrouplist, df1, df2, df3,
                   substance_df, substance_participant_id,
                   demo_combine_substance, opioid_crosstab, function_df,
                   function_participant_id, rederived>>

-----------------------------------------------------------------------------

Next ==
    \/ ReadDemo
    \/ DeriveAgeGroup
    \/ DemoCrosstab
    \/ RederiveAgeGroup
    \/ ReadSubstance
    \/ SubstanceParticipant
    \/ SubstanceMerge
    \/ SubstanceTimepoint
    \/ OpioidCrosstab
    \/ RederiveTimepoint
    \/ ReadFunction
    \/ FunctionParticipant
    \/ FunctionMerge
    \/ FunctionTimepoint

Spec == Init /\ [][Next]_vars

-----------------------------------------------------------------------------
(* What the claims speak of.                                               *)

Statements ==
    <<"read_demo", "age_group", "demo_crosstab", "read_substance",
      "substance_participant", "substance_merge", "substance_timepoint",
      "opioid_crosstab", "read_function", "function_participant",
      "function_merge", "function_timepoint", "done">>

Position(statement) ==
    CHOOSE k \in 1..Len(Statements) : Statements[k] = statement

\* The statement the run stands at: the next one, or the one that raised.
\* A derivation run again stands where the cell it follows ended.
StandsAt ==
    CASE pc = "rederived_age_group" -> "read_substance"
      [] pc = "rederived_timepoint" -> "read_function"
      [] pc = "raised" /\ raised.statement = "rederive_age_group"
             -> "read_substance"
      [] pc = "raised" /\ raised.statement = "rederive_timepoint"
             -> "read_function"
      [] pc = "raised" -> raised.statement
      [] OTHER -> pc

\* The statement has run and raised nothing.
Completed(statement) == Position(statement) < Position(StandsAt)

RECURSIVE SumCells(_, _)
SumCells(table, cells) ==
    IF cells = {} THEN 0
    ELSE LET cell == CHOOSE c \in cells : TRUE
         IN  table[cell] + SumCells(table, cells \ {cell})

\* The sum of all cells of a cross-tabulation.
Total(table) == SumCells(table, DOMAIN table)

\* The number of rows of mydf with a value in both columns.
RowsWithBoth(mydf, a, b) ==
    Cardinality({k \in 1..Len(mydf.rows) :
                    notna(mydf.rows[k][a]) /\ notna(mydf.rows[k][b])})

IsPrefix(p, s) == Len(p) <= Len(s) /\ SubSeq(s, 1, Len(p)) = p

\* The cells of a list.
Values(list) == {list[k] : k \in 1..Len(list)}

\* The last six characters of label are "Week 0".
EndsInWeek0(label) ==
    /\ Len(label) >= 6
    /\ label[Len(label) - 5] = "W"
    /\ label[Len(label) - 4] = "e"
    /\ label[Len(label) - 3] = "e"
    /\ label[Len(label) - 2] = "k"
    /\ label[Len(label) - 1] = " "
    /\ label[Len(label)] = "0"

-----------------------------------------------------------------------------
(* C1: for every key <id> followed by the suffix, whatever <id> ends with, *)
(* find_participant returns exactly <id>.  Stated of the participant_id    *)
(* column both cells store: a key ending in "_sc" (substance_df) or "_pf"  *)
(* (function_df) gives the key without its last three characters.          *)
SuffixStripped(mydf, endstr) ==
    \A k \in 1..Len(mydf.rows) :
        LET key == mydf.rows[k]["submitter_id"].s
        IN  ("participant_id" \in mydf.columns /\ endswith(key, endstr))
            => mydf.rows[k]["participant_id"].s
                   = SubSeq(key, 1, Len(key) - Len(endstr))

C1_SuffixStripped ==
    /\ SuffixStripped(substance_df, EndstrSc)
    /\ SuffixStripped(function_df, EndstrPf)

(* C2: for every key that does not end with the suffix, find_participant   *)
(* returns the key unchanged.                                              *)
OtherKeysUnchanged(mydf, endstr) ==
    \A k \in 1..Len(mydf.rows) :
        LET key == mydf.rows[k]["submitter_id"].s
        IN  ("participant_id" \in mydf.columns /\ ~endswith(key, endstr))
            => mydf.rows[k]["participant_id"].s = key

C2_OtherKeysUnchanged ==
    /\ OtherKeysUnchanged(substance_df, EndstrSc)
    /\ OtherKeysUnchanged(function_df, EndstrPf)

(* C3: outer-join completeness.  Once a merge has run, every participant_id*)
(* of its left table (substance_df, function_df) and every submitter_id of *)
(* demo_bacpac is in a row of the joined table: the left identifiers in    *)
(* column participant_id, the demographic ones in column submitter_id_y.   *)
JoinComplete(left, joined) ==
    /\ Values(Column(left, "participant_id"))
           \subseteq Values(Column(joined, "participant_id"))
    /\ Values(Column(demo_bacpac, "submitter_id"))
           \subseteq Values(Column(joined, "submitter_id_y"))

C3_OuterJoinComplete ==
    /\ Completed("substance_merge")
           => JoinComplete(substance_df, demo_combine_substance)
    /\ Completed("function_merge")
           => JoinComplete(function_df, demo_combine_function)

\* The substance merge has run, and the join holds a left row without a
\* demographic row, a demographic row without a left row and a matched row.
C3_Witness ==
    /\ Completed("substance_merge")
    /\ \E k \in 1..Len(demo_combine_substance.rows) :
           LET row == demo_combine_substance.rows[k]
           IN  notna(row["participant_id"]) /\ ~notna(row["submitter_id_y"])
    /\ \E k \in 1..Len(demo_combine_substance.rows) :
           LET row == demo_combine_substance.rows[k]
           IN  ~notna(row["participant_id"]) /\ notna(row["submitter_id_y"])
    /\ \E k \in 1..Len(demo_combine_substance.rows) :
           LET row == demo_combine_substance.rows[k]
           IN  notna(row["participant_id"]) /\ notna(row["submitter_id_y"])

(* C4: cross-tabulation margin.  For each cross-tabulation the notebook    *)
(* builds (race x sex, ethnicity x sex, age_group x sex, OPIOID01 x        *)
(* time_point) the sum of all cells is the number of rows of the source    *)
(* table with a value in both columns.                                     *)
C4_CrosstabMargin ==
    /\ Completed("demo_crosstab") =>
           /\ Total(df1) = RowsWithBoth(demo_bacpac, "race", "sex")
           /\ Total(df2) = RowsWithBoth(demo_bacpac, "ethnicity", "sex")
           /\ Total(df3) = RowsWithBoth(demo_bacpac, "age_group", "sex")
    /\ Completed("opioid_crosstab") =>
           Total(opioid_crosstab)
               = RowsWithBoth(demo_combine_substance, "OPIOID01", "time_point")

\* All four tables are built, and both source tables have a row with a
\* missing value, which no cell counts, and a row without.
C4_Witness ==
    /\ Completed("opioid_crosstab")
    /\ 0 < Total(df1) /\ Total(df1) < Len(demo_bacpac.rows)
    /\ 0 < Total(opioid_crosstab)
    /\ Total(opioid_crosstab) < Len(demo_combine_substance.rows)

(* C5: age bands.  Once age_group has returned, agegrouplist has one label *)
(* per age of age_list, in order: the lower-band label, str(minimum age)   *)
(* followed by "-55 yr", where the age is <= 55, and ">55 yr" elsewhere;   *)
(* the column age_group holds that list; and ages [40, 55, 56, 70] give    *)
(* ["40-55 yr", "40-55 yr", ">55 yr", ">55 yr"].                           *)
C5_AgeBands ==
    /\ Completed("age_group") =>
           /\ Len(agegrouplist) = Len(age_list)
           /\ \E m \in Values(age_list) :
                  /\ \A a \in Values(age_list) : m.n <= a.n
                  /\ \A k \in 1..Len(age_list) :
                         agegrouplist[k].s =
                             IF age_list[k].n <= 55
                             THEN Digits(m.n) \o <<"-", "5", "5", " ", "y", "r">>
                             ELSE <<">", "5", "5", " ", "y", "r">>
           /\ Column(demo_bacpac, "age_group") = agegrouplist
    /\ age_group(<<PyInt(40), PyInt(55), PyInt(56), PyInt(70)>>)
           = Returned(<<PyStr(<<"4", "0", "-", "5", "5", " ", "y", "r">>),
                        PyStr(<<"4", "0", "-", "5", "5", " ", "y", "r">>),
                        PyStr(<<">", "5", "5", " ", "y", "r">>),
                        PyStr(<<">", "5", "5", " ", "y", "r">>)>>)

\* age_group has returned on a list holding the threshold age 55 and an
\* age above it, and both labels are in the column.
C5_Witness ==
    /\ Completed("age_group")
    /\ PyInt(55) \in Values(age_list)
    /\ \E a \in Values(age_list) : a.n > 55
    /\ Cardinality(Values(Column(demo_bacpac, "age_group"))) = 2

(* C6: find_timepoint is idempotent.  Applied to the table whose visit     *)
(* labels are its own output (the time_point column, "Week 0" and          *)
(* "Week 12"), it raises nothing and returns every label unchanged.        *)
C6_TimepointIdempotent ==
    /\ raised.statement # "rederive_timepoint"
    /\ pc = "rederived_timepoint"
           => rederived = Column(demo_combine_substance, "time_point")

\* find_timepoint has run on a time_point column holding both labels.
C6_Witness ==
    /\ pc = "rederived_timepoint"
    /\ Values(rederived) = {PyStr(Week0), PyStr(Week12)}

DemoColumnsJoined ==
    {"submitter_id_y", "age_in_years", "sex", "race", "ethnicity", "age_group"}

\* The rows of joined that come from the left row of this key and identifier.
RowsOf(joined, key, id) ==
    {j \in 1..Len(joined.rows) :
        /\ joined.rows[j]["submitter_id_x"] = key
        /\ joined.rows[j]["participant_id"] = id}

(* C8, as claimed: a row whose key does not carry the suffix raises no     *)
(* error in find_participant and the outer join, and is kept in the joined *)
(* table as an unmatched row: every demographic column of it is null.      *)
KeptUnmatched(left, joined, endstr) ==
    \A k \in 1..Len(left.rows) :
        LET key == left.rows[k]["submitter_id"]
            id == left.rows[k]["participant_id"]
        IN  ~endswith(key.s, endstr) =>
                /\ RowsOf(joined, key, id) # {}
                /\ \A j \in RowsOf(joined, key, id) :
                       \A c \in DemoColumnsJoined : ~notna(joined.rows[j][c])

C8_KeptUnmatched ==
    /\ raised.statement \notin {"substance_participant", "substance_merge",
                                "function_participant", "function_merge"}
    /\ Completed("substance_merge")
           => KeptUnmatched(substance_df, demo_combine_substance, EndstrSc)
    /\ Completed("function_merge")
           => KeptUnmatched(function_df, demo_combine_function, EndstrPf)

(* C8, amended: a row whose key does not carry the suffix raises no error  *)
(* in find_participant and the outer join and is kept in the joined table; *)
(* it is an unmatched row, every demographic column null, exactly when the *)
(* identifier find_participant returned for it is no submitter_id of the   *)
(* demographic table, and is joined to the demographic rows otherwise.     *)
KeptMatchedByIdentifier(left, joined, endstr) ==
    \A k \in 1..Len(left.rows) :
        LET key == left.rows[k]["submitter_id"]
            id == left.rows[k]["participant_id"]
            known == id \in Values(Column(demo_bacpac, "submitter_id"))
        IN  ~endswith(key.s, endstr) =>
                /\ RowsOf(joined, key, id) # {}
                /\ \A j \in RowsOf(joined, key, id) :
                       IF known
                       THEN joined.rows[j]["submitter_id_y"] = id
                       ELSE \A c \in DemoColumnsJoined :
                                ~notna(joined.rows[j][c])

C8_KeptMatchedByIdentifier ==
    /\ raised.statement \notin {"substance_participant", "substance_merge",
                                "function_participant", "function_merge"}
    /\ Completed("substance_merge") =>
           KeptMatchedByIdentifier(substance_df, demo_combine_substance,
                                   EndstrSc)
    /\ Completed("function_merge") =>
           KeptMatchedByIdentifier(function_df, demo_combine_function,
                                   EndstrPf)

\* The substance merge has run on a table with two keys that do not carry
\* "_sc", and one is kept unmatched while the other found its participant.
C8_Witness ==
    /\ Completed("substance_merge")
    /\ \E j \in 1..Len(demo_combine_substance.rows) :
           LET row == demo_combine_substance.rows[j]
           IN  /\ notna(row["submitter_id_x"])
               /\ ~endswith(row["submitter_id_x"].s, EndstrSc)
               /\ ~notna(row["submitter_id_y"])
    /\ \E j \in 1..Len(demo_combine_substance.rows) :
           LET row == demo_combine_substance.rows[j]
           IN  /\ notna(row["submitter_id_x"])
               /\ ~endswith(row["submitter_id_x"].s, EndstrSc)
               /\ notna(row["submitter_id_y"])

(* C9: frame of the identifier derivation.  The step that calls            *)
(* find_participant and stores its list as column participant_id gets one  *)
(* identifier per row, the k-th from the k-th row's key (it is a prefix of *)
(* that key), and leaves the row count and every column the table had      *)
(* unchanged.                                                              *)
ParticipantFrame(before, after, ids) ==
    /\ Len(ids) = Len(before.rows)
    /\ Len(after.rows) = Len(before.rows)
    /\ after.columns = before.columns \cup {"participant_id"}
    /\ \A k \in 1..Len(before.rows) :
           /\ \A c \in before.columns : after.rows[k][c] = before.rows[k][c]
           /\ after.rows[k]["participant_id"] = ids[k]
           /\ IsPrefix(ids[k].s, before.rows[k]["submitter_id"].s)

C9_ParticipantFrame ==
    [][/\ pc = "substance_participant" =>
              ParticipantFrame(substance_df, substance_df',
                               substance_participant_id')
       /\ pc = "function_participant" =>
              ParticipantFrame(function_df, function_df',
                               function_participant_id')]_vars

\* Both derivations have run, the first on a table of two rows whose
\* identifiers differ.
C9_Witness ==
    /\ Completed("function_participant")
    /\ Len(function_df.rows) > 0
    /\ Len(substance_df.rows) = 2
    /\ substance_participant_id[1] # substance_participant_id[2]
    /\ Column(substance_df, "participant_id") = substance_participant_id

(* C10: default bucket of the time-point derivation.  Once find_timepoint  *)
(* has returned, the time_point of every row with a visit label is         *)
(* "Week 0" exactly when the label ends with "Week 0" and "Week 12" for    *)
(* every other label; the column holds no third label.                     *)
TimepointDerived(joined) ==
    \A k \in 1..Len(joined.rows) :
        LET label == joined.rows[k]["visits.submitter_id"]
            time_point == joined.rows[k]["time_point"]
        IN  notna(label) =>
                /\ time_point \in {PyStr(Week0), PyStr(Week12)}
                /\ time_point = PyStr(Week0) <=> EndsInWeek0(label.s)

C10_TimepointBuckets ==
    /\ Completed("substance_timepoint")
           => TimepointDerived(demo_combine_substance)
    /\ Completed("function_timepoint")
           => TimepointDerived(demo_combine_function)

\* find_timepoint has returned on labels "V1 Week 0" (ends with "Week 0")
\* and "Week 10" (falls in the default bucket).
C10_Witness ==
    /\ Completed("substance_timepoint")
    /\ \E k \in 1..Len(demo_combine_substance.rows) :
           /\ demo_combine_substance.rows[k]["visits.submitter_id"]
                  = PyStr(V1Week0)
           /\ demo_combine_substance.rows[k]["time_point"] = PyStr(Week0)
    /\ \E k \in 1..Len(demo_combine_substance.rows) :
           /\ demo_combine_substance.rows[k]["visits.submitter_id"]
                  = PyStr(Week10)
           /\ demo_combine_substance.rows[k]["time_point"] = PyStr(Week12)

-----------------------------------------------------------------------------
(* The ACTT1 notebook (ACTT1_accessclinical.ipynb): the trial table, its   *)
(* Kaplan-Meier and Cox fits, and the recoding of its categories.          *)

MaxDataRows == 4

\* The strings of ACTT1.csv and of the wrangling cell, by name.  The
\* characters U+2265 and U+2264 of the band labels are spelled "GE", "LE".
Text ==
    [
      WHITE |->
          <<"W", "H", "I", "T", "E">>,
      BLACK_OR_AFRICAN_AMERICAN |->
          <<"B", "L", "A", "C", "K", " ", "O", "R", " ", "A", "F", "R", "I",
            "C", "A", "N", " ", "A", "M", "E", "R", "I", "C", "A", "N">>,
      ASIAN |->
          <<"A", "S", "I", "A", "N">>,
      UNKNOWN |->
          <<"U", "N", "K", "N", "O", "W", "N">>,
      AMERICAN_INDIAN_OR_ALASKA_NATIVE |->
          <<"A", "M", "E", "R", "I", "C", "A", "N", " ", "I", "N", "D", "I",
            "A", "N", " ", "O", "R", " ", "A", "L", "A", "S", "K", "A", " ",
            "N", "A", "T", "I", "V", "E">>,
      MULTIPLE |->
          <<"M", "U", "L", "T", "I", "P", "L", "E">>,
      NATIVE_HAWAIIAN_OR_OTHER_PACIFIC_ISLANDER |->
          <<"N", "A", "T", "I", "V", "E", " ", "H", "A", "W", "A", "I", "I",
            "A", "N", " ", "O", "R", " ", "O", "T", "H", "E", "R", " ", "P",
            "A", "C", "I", "F", "I", "C", " ", "I", "S", "L", "A", "N", "D",
            "E", "R">>,
      HISPANIC_OR_LATINO |->
          <<"H", "I", "S", "P", "A", "N", "I", "C", " ", "O", "R", " ", "L",
            "A", "T", "I", "N", "O">>,
      NOT_HISPANIC_OR_LATINO |->
          <<"N", "O", "T", " ", "H", "I", "S", "P", "A", "N", "I", "C", " ",
            "O", "R", " ", "L", "A", "T", "I", "N", "O">>,
      NOT_REPORTED |->
          <<"N", "O", "T", " ", "R", "E", "P", "O", "R", "T", "E", "D">>,
      Black |->
          <<"B", "l", "a", "c", "k">>,
      Other |->
          <<"O", "t", "h", "e", "r">>,
      HispanicOrLatino |->
          <<"H", "i", "s", "p", "a", "n", "i", "c", " ", "o", "r", " ", "L",
            "a", "t", "i", "n", "o">>,
      NotHispanicOrLatino |->
          <<"N", "o", "t", " ", "H", "i", "s", "p", "a", "n", "i", "c", " ",
            "o", "r", " ", "L", "a", "t", "i", "n", "o">>,
      Unknown |->
          <<"U", "n", "k", "n", "o", "w", "n">>,
      Remdesivir |->
          <<"R", "e", "m", "d", "e", "s", "i", "v", "i", "r">>,
      Placebo |->
          <<"P", "l", "a", "c", "e", "b", "o">>,
      Age18to40 |->
          <<"1", "8", " ", "t", "o", " ", "<", "4", "0", " ", "y", "r">>,
      Age40to65 |->
          <<"4", "0", " ", "t", "o", " ", "<", "6", "5", " ", "y", "r">>,
      Age65up |->
          <<"GE", "6", "5", " ", "y", "r">>,
      Symp10orLess |->
          <<"LE", "1", "0", " ", "d", "a", "y", "s">>,
      SympOver10 |->
          <<">", "1", "0", " ", "d", "a", "y", "s">>,
      M |->
          <<"M">>,
      F |->
          <<"F">> ]

\* The columns of ACTT1.csv the cells below use.
DataColumns ==
    {"TRTP", "AGE", "SEX", "RACE", "ETHNIC", "BDURSYMP", "ORDSCRG", "TTRECOV",
     "RECCNSR"}

DataRow(trtp, age, sex, race, ethnic, bdursymp, ordscrg, ttrecov, reccnsr) ==
    [c \in DataColumns |->
        CASE c = "TRTP" -> PyStr(trtp)
          [] c = "AGE" -> PyInt(age)
          [] c = "SEX" -> PyStr(sex)
          [] c = "RACE" -> race
          [] c = "ETHNIC" -> PyStr(ethnic)
          [] c = "BDURSYMP" -> bdursymp
          [] c = "ORDSCRG" -> ordscrg
          [] c = "TTRECOV" -> PyInt(ttrecov)
          [] c = "RECCNSR" -> PyInt(reccnsr)]

\* Subjects of both arms, of every baseline score and of none, with ages
\* and symptom durations on and off the edges of the bins, and with a race
\* the lookup table lists and one it does not.
DataRows ==
    { DataRow(Text.Remdesivir, 30, Text.F, PyStr(Text.WHITE),
              Text.HISPANIC_OR_LATINO, PyInt(10), PyInt(5), 7, 0),
      DataRow(Text.Placebo, 40, Text.M, PyStr(Text.BLACK_OR_AFRICAN_AMERICAN),
              Text.NOT_HISPANIC_OR_LATINO, PyInt(11), PyInt(4), 28, 1),
      DataRow(Text.Remdesivir, 65, Text.M, PyStr(Text.UNKNOWN),
              Text.UNKNOWN, NaN, PyInt(4), 10, 0),
      DataRow(Text.Placebo, 18, Text.F, PyStr(Text.NOT_REPORTED),
              Text.NOT_REPORTED, PyInt(0), NaN, 28, 1),
      DataRow(Text.Placebo, 70, Text.F, PyStr(Text.ASIAN),
              Text.NOT_HISPANIC_OR_LATINO, PyInt(47), PyInt(5), 12, 0),
      DataRow(Text.Remdesivir, 50, Text.M, PyStr(Text.MULTIPLE),
              Text.HISPANIC_OR_LATINO, PyInt(5), PyInt(6), 9, 0) }

\* The lookup tables of the wrangling cell, as lists of (key, value).
di_race ==
    << <<PyStr(Text.WHITE), PyStr(White)>>,
       <<PyStr(Text.BLACK_OR_AFRICAN_AMERICAN), PyStr(Text.Black)>>,
       <<PyStr(Text.ASIAN), PyStr(Asian)>>,
       <<PyStr(Text.UNKNOWN), PyStr(Text.Other)>>,
       <<PyStr(Text.AMERICAN_INDIAN_OR_ALASKA_NATIVE), PyStr(Text.Other)>>,
       <<PyStr(Text.MULTIPLE), PyStr(Text.Other)>>,
       <<PyStr(Text.NATIVE_HAWAIIAN_OR_OTHER_PACIFIC_ISLANDER), PyStr(Text.Other)>> >>

di_ethnic ==
    << <<PyStr(Text.HISPANIC_OR_LATINO), PyStr(Text.HispanicOrLatino)>>,
       <<PyStr(Text.NOT_HISPANIC_OR_LATINO), PyStr(Text.NotHispanicOrLatino)>>,
       <<PyStr(Text.UNKNOWN), PyStr(Text.Unknown)>>,
       <<PyStr(Text.NOT_REPORTED), PyStr(Text.Unknown)>> >>

di_sex == << <<PyStr(Text.M), PyStr(Male)>>, <<PyStr(Text.F), PyStr(Female)>> >>

\* DataFrame.replace with a dict per column: a cell whose value is a key of
\* its column's dict takes the dict's value, every other cell is kept.
replace(mydf, to_replace) ==
    DataFrame(mydf.columns,
              [k \in 1..Len(mydf.rows) |->
                  [c \in mydf.columns |->
                      LET v == mydf.rows[k][c]
                          di == IF c \in DOMAIN to_replace
                                THEN to_replace[c] ELSE <<>>
                      IN  IF \E j \in 1..Len(di) : di[j][1] = v
                          THEN di[CHOOSE j \in 1..Len(di) : di[j][1] = v][2]
                          ELSE v]])

\* pd.cut(x, bins, labels) with its default right=True: bin b is the
\* interval (bins[b], bins[b+1]], and a value in no bin becomes NaN.
cut(x, bins, labels) ==
    [k \in 1..Len(x) |->
        IF /\ notna(x[k])
           /\ \E b \in 1..Len(labels) :
                  bins[b] < x[k].n /\ x[k].n <= bins[b + 1]
        THEN PyStr(labels[CHOOSE b \in 1..Len(labels) :
                              bins[b] < x[k].n /\ x[k].n <= bins[b + 1]])
        ELSE NaN]

\* data1.loc[data1[col].isnull() == True, col] = value
FillNull(mydf, col, value) ==
    SetColumn(mydf, col,
              [k \in 1..Len(mydf.rows) |->
                  IF notna(mydf.rows[k][col]) THEN mydf.rows[k][col] ELSE value])

\* The values of a column with the row labels of the table: a pandas Series.
\* The label of a row is its position in ACTT1.csv.
Series(mydf, col) ==
    [k \in 1..Len(mydf.rows) |-> [index |-> k, value |-> mydf.rows[k][col]]]

\* mydf[col] == value: a boolean for every row label of the table.
Equals(mydf, col, value) ==
    [k \in 1..Len(mydf.rows) |-> mydf.rows[k][col] = value]

\* series[ix] with a boolean Series ix: ix is aligned on the labels of
\* series, and the entries whose label ix marks are kept, in order.
Where(series, ix) == SelectSeq(series, LAMBDA e : ix[e.index])

\* 1 - series
OneMinus(series) ==
    [k \in 1..Len(series) |->
        [index |-> series[k].index, value |-> PyInt(1 - series[k].value.n)]]

\* Series.unique().tolist(): the distinct values, in order of appearance.
unique(list) ==
    LET first == [k \in 1..Len(list) |-> \A j \in 1..(k - 1) : list[j] # list[k]]
        kept == SelectSeq([k \in 1..Len(list) |-> k], LAMBDA k : first[k])
    IN  [k \in 1..Len(kept) |-> list[kept[k]]]

\* The list of baseline scores without its .sort().
clinical_status_unsorted(mydf) ==
    SelectSeq(unique(Column(mydf, "ORDSCRG")), LAMBDA x : notna(x))

\* [x for x in data["ORDSCRG"].unique().tolist() if str(x) != "nan"],
\* then clinical_status_list.sort()
clinical_status(mydf) ==
    SortSeq(SelectSeq(unique(Column(mydf, "ORDSCRG")), LAMBDA x : notna(x)),
            LAMBDA a, b : a.n < b.n)

\* fig, axes = plt.subplots(2, 2, ...); axes = axes.reshape(4,)
AxesCount == 4

\* What a fitter is handed: KaplanMeierFitter().fit(durations,
\* event_observed, label=...) drawn on a panel, or CoxPHFitter().fit(df,
\* duration_col, event_col).
Fit(model, panel, title, label, durations, event_observed) ==
    [model |-> model, panel |-> panel, title |-> title, label |-> label,
     durations |-> durations, event_observed |-> event_observed]

\* fit of a lifelines fitter: the durations pass through its numeric check,
\* which refuses an empty sample with a ValueError.
fit(handed) ==
    IF handed.durations = <<>> THEN Raised("ValueError") ELSE Returned(handed)

\* dmatrices(model_expr, data1): patsy drops every row with a missing value
\* in a variable of the formula.
dmatrices(mydf) ==
    LET formula == {"TTRECOV", "RACE", "ETHNIC", "AGE", "SEX", "BDURSYMP",
                    "ORDSCRG", "RECCNSR"}
        complete == [k \in 1..Len(mydf.rows) |->
                        \A c \in formula : notna(mydf.rows[k][c])]
    IN  [TTRECOV |-> Where(Series(mydf, "TTRECOV"), complete),
         RECCNSR |-> Where(Series(mydf, "RECCNSR"), complete)]

\* data = pd.read_csv("ACTT1_Datasets/ACTT_1_original/ACTT1.csv")
ReadData ==
    /\ pc = "read_data"
    /\ UNCHANGED beyondACTT1
    /\ \E table \in Tables(DataColumns, DataRows, MaxDataRows) : data' = table
    /\ pc' = "km_overall"
    /\ UNCHANGED <<raised, fits, clinical_status_list, loop_i, data1, X>>

\* ix = data["TRTP"] == "Placebo"
\* kmf_exp.fit(data.loc[~ix]["TTRECOV"], (1 - data.loc[~ix]["RECCNSR"]),
\*             label="Remdesivir", ...)
\* kmf_control.fit(data.loc[ix]["TTRECOV"], (1 - data.loc[ix]["RECCNSR"]),
\*                 label="Placebo", ...)
KMOverall ==
    /\ pc = "km_overall"
    /\ UNCHANGED beyondACTT1
    /\ LET ix == Equals(data, "TRTP", PyStr(Text.Placebo))
           not_ix == [k \in DOMAIN ix |-> ~ix[k]]
           exp == Fit("KaplanMeier", 0, NaN, Text.Remdesivir,
                      Where(Series(data, "TTRECOV"), not_ix),
                      OneMinus(Where(Series(data, "RECCNSR"), not_ix)))
           control == Fit("KaplanMeier", 0, NaN, Text.Placebo,
                          Where(Series(data, "TTRECOV"), ix),
                          OneMinus(Where(Series(data, "RECCNSR"), ix)))
       IN  IF fit(exp).raised # ""
           THEN /\ Raise("km_overall", fit(exp).raised)
                /\ UNCHANGED fits
           ELSE IF fit(control).raised # ""
           THEN /\ Raise("km_overall", fit(control).raised)
                /\ fits' = Append(fits, exp)
           ELSE /\ fits' = fits \o <<exp, control>>
                /\ pc' = "km_scores"
                /\ UNCHANGED raised
    /\ UNCHANGED <<data, clinical_status_list, loop_i, data1, X>>

\* clinical_status_list = [...]; clinical_status_list.sort()
\* for i, clinical_status in enumerate(clinical_status_list):
KMStatusList ==
    /\ pc = "km_scores"
    /\ UNCHANGED beyondACTT1
    /\ clinical_status_list' = clinical_status(data)
    /\ loop_i' = 0
    /\ pc' = IF clinical_status(data) = <<>> THEN "replace" ELSE "km_panel"
    /\ UNCHANGED <<raised, data, fits, data1, X>>

\* The body of the loop for clinical_status_list[i]:
\* ix = data["ORDSCRG"] == clinical_status
\* kmf_exp.fit(T[ix], (1 - E[ix]), label="Remdesivir", ...)
\*     .plot_cumulative_density(ax=axes[i])
\* kmf_control.fit(T1[ix], (1 - E1[ix]), label="Placebo", ...)
\*     .plot_cumulative_density(ax=axes[i])
\* ax.set_title(clinical_status, ...)
\* with T, E of group1 = data[data["TRTP"] == "Remdesivir"] and T1, E1 of
\* group2 = data[data["TRTP"] == "Placebo"].
KMPanel ==
    /\ pc = "km_panel"
    /\ UNCHANGED beyondACTT1
    /\ IF loop_i >= AxesCount
       THEN /\ Raise("km_panel", "IndexError")
            /\ UNCHANGED <<fits, loop_i>>
       ELSE LET clinical_status_i == clinical_status_list[loop_i + 1]
                group1 == Equals(data, "TRTP", PyStr(Text.Remdesivir))
                group2 == Equals(data, "TRTP", PyStr(Text.Placebo))
                T == Where(Series(data, "TTRECOV"), group1)
                E == Where(Series(data, "RECCNSR"), group1)
                T1 == Where(Series(data, "TTRECOV"), group2)
                E1 == Where(Series(data, "RECCNSR"), group2)
                ix == Equals(data, "ORDSCRG", clinical_status_i)
                exp == Fit("KaplanMeier", loop_i + 1, clinical_status_i,
                           Text.Remdesivir, Where(T, ix), OneMinus(Where(E, ix)))
                control == Fit("KaplanMeier", loop_i + 1, clinical_status_i,
                               Text.Placebo, Where(T1, ix), OneMinus(Where(E1, ix)))
            IN  IF fit(exp).raised # ""
                THEN /\ Raise("km_panel", fit(exp).raised)
                     /\ UNCHANGED <<fits, loop_i>>
                ELSE IF fit(control).raised # ""
                THEN /\ Raise("km_panel", fit(control).raised)
                     /\ fits' = Append(fits, exp)
                     /\ UNCHANGED loop_i
                ELSE /\ fits' = fits \o <<exp, control>>
                     /\ loop_i' = loop_i + 1
                     /\ pc' = IF loop_i + 1 = Len(clinical_status_list)
                              THEN "replace" ELSE "km_panel"
                     /\ UNCHANGED raised
    /\ UNCHANGED <<data, clinical_status_list, data1, X>>

\* data1 = data.replace({"RACE": di_race, "ETHNIC": di_ethnic, "SEX": di_sex})
RecodeCategories ==
    /\ pc = "replace"
    /\ UNCHANGED beyondACTT1
    /\ data1' = replace(data, [RACE |-> di_race, ETHNIC |-> di_ethnic,
                               SEX |-> di_sex])
    /\ pc' = "cut_age"
    /\ UNCHANGED <<raised, data, fits, clinical_status_list, loop_i, X>>

\* age_category = pd.cut(data1.AGE, bins=[18, 40, 65, 95], labels=[...])
\* data1["AGE"] = age_category
CutAge ==
    /\ pc = "cut_age"
    /\ UNCHANGED beyondACTT1
    /\ data1' = SetColumn(data1, "AGE",
                          cut(Column(data1, "AGE"), <<18, 40, 65, 95>>,
                              <<Text.Age18to40, Text.Age40to65, Text.Age65up>>))
    /\ pc' = "cut_symp"
    /\ UNCHANGED <<raised, data, fits, clinical_status_list, loop_i, X>>

\* symp_category = pd.cut(data1.BDURSYMP, bins=[0, 10, 46], labels=[...])
\* symp_category = symp_category.cat.add_categories(["Unknown"])
\* data1["BDURSYMP"] = symp_category
CutSymptoms ==
    /\ pc = "cut_symp"
    /\ UNCHANGED beyondACTT1
    /\ data1' = SetColumn(data1, "BDURSYMP",
                          cut(Column(data1, "BDURSYMP"), <<0, 10, 46>>,
                              <<Text.Symp10orLess, Text.SympOver10>>))
    /\ pc' = "fill_unknown"
    /\ UNCHANGED <<raised, data, fits, clinical_status_list, loop_i, X>>

\* data1.loc[data1["BDURSYMP"].isnull() == True, "BDURSYMP"] = "Unknown"
FillUnknown ==
    /\ pc = "fill_unknown"
    /\ UNCHANGED beyondACTT1
    /\ data1' = FillNull(data1, "BDURSYMP", PyStr(Text.Unknown))
    /\ pc' = "dmatrices"
    /\ UNCHANGED <<raised, data, fits, clinical_status_list, loop_i, X>>

\* y, X = dmatrices(model_expr, data1, return_type="dataframe")
DesignMatrix ==
    /\ pc = "dmatrices"
    /\ UNCHANGED beyondACTT1
    /\ X' = dmatrices(data1)
    /\ pc' = "cox_fit"
    /\ UNCHANGED <<raised, data, fits, clinical_status_list, loop_i, data1>>

\* cph.fit(df=X, duration_col="TTRECOV", event_col="RECCNSR", strata=[...])
CoxFit ==
    /\ pc = "cox_fit"
    /\ UNCHANGED beyondACTT1
    /\ LET cph == Fit("CoxPH", 0, NaN, <<>>, X.TTRECOV, X.RECCNSR)
       IN  IF fit(cph).raised # ""
           THEN /\ Raise("cox_fit", fit(cph).raised)
                /\ UNCHANGED fits
           ELSE /\ fits' = Append(fits, cph)
                /\ pc' = "actt1_done"
                /\ UNCHANGED raised
    /\ UNCHANGED <<data, clinical_status_list, loop_i, data1, X>>

InitACTT1 ==
    /\ pc = "read_data"
    /\ raised = NotRaised
    /\ IdleBACPAC
    /\ IdleACTT1
    /\ IdleAcquire
    /\ IdleTCGA
    /\ IdleCells

NextACTT1 ==
    \/ ReadData
    \/ KMOverall
    \/ KMStatusList
    \/ KMPanel
    \/ RecodeCategories
    \/ CutAge
    \/ CutSymptoms
    \/ FillUnknown
    \/ DesignMatrix
    \/ CoxFit

SpecACTT1 == InitACTT1 /\ [][NextACTT1]_vars

-----------------------------------------------------------------------------
(* What the claims on the ACTT1 notebook speak of.                         *)

ACTT1Statements ==
    <<"read_data", "km_overall", "km_scores", "km_panel", "replace",
      "cut_age", "cut_symp", "fill_unknown", "dmatrices", "cox_fit",
      "actt1_done">>

ACTT1Position(statement) ==
    CHOOSE k \in 1..Len(ACTT1Statements) : ACTT1Statements[k] = statement

\* The statement of the ACTT1 notebook has run and raised nothing.
CompletedACTT1(statement) ==
    /\ pc \in {ACTT1Statements[k] : k \in 1..Len(ACTT1Statements)} \cup {"raised"}
    /\ ACTT1Position(statement)
           < ACTT1Position(IF pc = "raised" THEN raised.statement ELSE pc)

\* The subjects of the trial table: the row labels of data.
Subjects == 1..Len(data.rows)

\* C11: Lookup-table recoding maps unrecognized values to a default bucket:
\* after the ACTT1 data wrangling, the RACE of every subject is one of the
\* four groups White, Black, Asian, Other, whatever raw RACE value the input
\* row held.
C11_RaceFourGroups ==
    CompletedACTT1("replace") =>
        \A k \in Subjects :
            data1.rows[k]["RACE"]
                \in {PyStr(White), PyStr(Text.Black), PyStr(Asian), PyStr(Text.Other)}

\* C15: the wrangling step assigns every subject the age band its label
\* names: ages 18 <= a < 40 get "18 to <40 yr", ages 40 <= a < 65 get
\* "40 to <65 yr", ages a >= 65 get ">=65 yr", and no adult subject is left
\* without a band.
C15_AgeBandsAsLabelled ==
    CompletedACTT1("cut_age") =>
        \A k \in Subjects :
            LET a == data.rows[k]["AGE"].n
                band == data1.rows[k]["AGE"]
            IN  /\ (18 <= a /\ a < 40) => band = PyStr(Text.Age18to40)
                /\ (40 <= a /\ a < 65) => band = PyStr(Text.Age40to65)
                /\ a >= 65 => band = PyStr(Text.Age65up)
                /\ a >= 18 => notna(band)

\* The fits drawn on a panel of the figure by baseline score, for one arm.
PanelFits(panel, label) ==
    SelectSeq(fits, LAMBDA f : /\ f.model = "KaplanMeier"
                               /\ f.panel = panel
                               /\ f.label = label)

\* The subjects a fitter was handed.
Fitted(handed) ==
    {handed.durations[k].index : k \in 1..Len(handed.durations)}

\* The distinct non-null baseline scores of the table, and the i-th
\* smallest of them.
Scores == {data.rows[k]["ORDSCRG"] : k \in Subjects} \ {NaN}

SmallestScore(i) ==
    CHOOSE s \in Scores : Cardinality({t \in Scores : t.n < s.n}) = i - 1

\* The subjects of an arm with a baseline score.
ArmWithScore(arm, score) ==
    {k \in Subjects : /\ data.rows[k]["TRTP"] = PyStr(arm)
                      /\ data.rows[k]["ORDSCRG"] = score}

\* The panels a subject appears in.
PanelsOf(k) ==
    {i \in 1..AxesCount :
        \E label \in {Text.Remdesivir, Text.Placebo} :
            \E j \in 1..Len(PanelFits(i, label)) :
                k \in Fitted(PanelFits(i, label)[j])}

\* Panel i shows the i-th smallest score, each arm fitted once, on exactly
\* the subjects of that arm with that score, each handed over once.
PanelShowsScore(i) ==
    \A label \in {Text.Remdesivir, Text.Placebo} :
        LET drawn == PanelFits(i, label)
        IN  /\ Len(drawn) = 1
            /\ drawn[1].title = SmallestScore(i)
            /\ Fitted(drawn[1]) = ArmWithScore(label, SmallestScore(i))
            /\ Len(drawn[1].durations) = Cardinality(Fitted(drawn[1]))
            /\ [k \in 1..Len(drawn[1].durations) |-> drawn[1].durations[k].index]
                   = [k \in 1..Len(drawn[1].event_observed) |->
                         drawn[1].event_observed[k].index]

\* The cell of the panels has ended, by its last statement or by an
\* exception of the loop.
PanelCellEnded ==
    \/ CompletedACTT1("km_panel")
    \/ pc = "raised" /\ raised.statement = "km_panel"

\* C17 as stated: Kaplan-Meier panels by baseline score: the i-th panel
\* shows the i-th smallest distinct non-null baseline ordinal score; its
\* Remdesivir curve is fitted on exactly the Remdesivir subjects with that
\* score and its Placebo curve on exactly the Placebo subjects with that
\* score; a subject with a null score appears in no panel and every other
\* subject in exactly one.
C17_PanelsByScore ==
    PanelCellEnded =>
        /\ \A i \in 1..Cardinality(Scores) : PanelShowsScore(i)
        /\ \A k \in Subjects :
               IF notna(data.rows[k]["ORDSCRG"])
               THEN Cardinality(PanelsOf(k)) = 1
               ELSE PanelsOf(k) = {}

\* C17, amended: every panel the loop has drawn, the i-th, shows the i-th
\* smallest distinct non-null baseline score, its Remdesivir curve fitted
\* on exactly the Remdesivir subjects with that score and its Placebo curve
\* on exactly the Placebo subjects with that score; a subject with a null
\* score appears in no panel and every other subject in at most one; and
\* when the loop ends without an exception, which it does exactly when
\* every score has subjects of both arms, every score has its panel and
\* every subject with a score appears in exactly one.
C17_DrawnPanelsByScore ==
    /\ \A i \in 1..loop_i : PanelShowsScore(i)
    /\ \A k \in Subjects :
           /\ Cardinality(PanelsOf(k)) <= 1
           /\ ~notna(data.rows[k]["ORDSCRG"]) => PanelsOf(k) = {}
    /\ PanelCellEnded =>
           (CompletedACTT1("km_panel")
                <=> \A s \in Scores :
                        /\ ArmWithScore(Text.Remdesivir, s) # {}
                        /\ ArmWithScore(Text.Placebo, s) # {})
    /\ CompletedACTT1("km_panel") =>
           /\ loop_i = Cardinality(Scores)
           /\ \A k \in Subjects :
                  notna(data.rows[k]["ORDSCRG"])
                      => Cardinality(PanelsOf(k)) = 1

\* Two panels are drawn and the loop has ended, and the scores come in the
\* table in another order than sorted.
C17_Witness ==
    /\ CompletedACTT1("km_panel")
    /\ loop_i >= 2
    /\ \E j, k \in Subjects :
           /\ j < k
           /\ notna(data.rows[j]["ORDSCRG"]) /\ notna(data.rows[k]["ORDSCRG"])
           /\ data.rows[j]["ORDSCRG"].n > data.rows[k]["ORDSCRG"].n

\* C18: Consistent event indicator: RECCNSR means "recovery censored", and
\* in every model fit of the ACTT1 notebook (overall Kaplan-Meier, per-score
\* Kaplan-Meier, stratified Cox) a subject is passed as having the recovery
\* event exactly when RECCNSR = 0.
C18_EventWhenNotCensored ==
    \A f \in 1..Len(fits) :
        \A k \in 1..Len(fits[f].event_observed) :
            LET passed == fits[f].event_observed[k]
            IN  passed.value = PyInt(1)
                    <=> data.rows[passed.index]["RECCNSR"] = PyInt(0)

\* C19: Symptom-duration bands: after the ACTT1 wrangling, BDURSYMP of every
\* subject is exactly one of "<=10 days", ">10 days", "Unknown" and is never
\* null; a duration d with 0 <= d <= 10 gets "<=10 days", a duration d > 10
\* gets ">10 days", and only a missing duration gets "Unknown".
C19_SymptomBands ==
    CompletedACTT1("fill_unknown") =>
        \A k \in Subjects :
            LET d == data.rows[k]["BDURSYMP"]
                band == data1.rows[k]["BDURSYMP"]
            IN  /\ band \in {PyStr(Text.Symp10orLess), PyStr(Text.SympOver10),
                             PyStr(Text.Unknown)}
                /\ (notna(d) /\ 0 <= d.n /\ d.n <= 10)
                       => band = PyStr(Text.Symp10orLess)
                /\ (notna(d) /\ d.n > 10) => band = PyStr(Text.SympOver10)
                /\ band = PyStr(Text.Unknown) => ~notna(d)

-----------------------------------------------------------------------------
(* The acquisition cells of the three notebooks: the metadata query and    *)
(* the three object pulls of the BACPAC notebook, the authenticated pull   *)
(* and the unpacking of the ACTT1 notebook, and the download of the GDC    *)
(* transfer tool of the TCGA-CHOL notebook.  What the remote services      *)
(* answer is the environment's choice.                                     *)

MaxRecords == 2

\* A command line run by IPython's "!" or by R's system(): the exit status
\* comes back as a value, and nothing is raised, whatever it is.  The
\* second is a runner that raises on a non-zero exit status.
shell_checked(status) ==
    IF status # 0 THEN Raised("CalledProcessError") ELSE Returned(status)

shell(status) == Returned(status)

\* A command that has run, its exit status and what it complained of.
Ran(command, status, output) ==
    [command |-> command, status |-> status, output |-> output]

\* The descriptor blocks of the metadata service, flat dicts of strings;
\* the second lacks a key the cell selects.
DiscoveryBlocks ==
    { [research_focus_area |-> PyStr(<<"a">>),
       study_description_summary |-> PyStr(<<"b">>),
       institutions |-> PyStr(<<"c">>)],
      [research_focus_area |-> PyStr(<<"d">>),
       study_description_summary |-> PyStr(<<"e">>)] }

NoBlock == [c \in {} |-> NaN]

\* The value of a record of the response: a dict with its keys and its
\* gen3_discovery block, or a string.
Sub(type, keys, block) == [type |-> type, keys |-> keys, gen3_discovery |-> block]

\* The JSON objects keyed by record identifier, of at most n records; the
\* identifier of a record is its place in the response.
MetadataObjects(n) ==
    LET subs == {Sub("dict", {"_guid_type", "gen3_discovery"}, b) :
                    b \in DiscoveryBlocks}
                    \cup {Sub("dict", {"_guid_type"}, NoBlock)}
    IN  UNION {[1..m -> subs] : m \in 0..n}

\* What requests.get returns: the status code and the body.  The service
\* answers with the records, or with an error status and a body that is a
\* JSON object holding a message, or one that is no JSON at all.
Response(status_code, json, object) ==
    [status_code |-> status_code, text |-> [json |-> json, object |-> object]]

NoResponse == Response(0, FALSE, <<>>)

Responses ==
    {Response(200, TRUE, object) : object \in MetadataObjects(MaxRecords)}
        \cup {Response(404, TRUE, <<Sub("str", {}, NoBlock)>>),
              Response(502, FALSE, <<>>)}

\* json.loads(metadata_text)
loads(text) ==
    IF text.json THEN Returned(text.object) ELSE Raised("JSONDecodeError")

\* The list comprehension with sub.get("gen3_discovery", {}) in place of
\* the test of the key.
discovery_get(object) ==
    IF \E k \in 1..Len(object) : object[k].type # "dict"
    THEN Raised("AttributeError")
    ELSE Returned([k \in 1..Len(object) |-> object[k].gen3_discovery])

\* [sub['gen3_discovery'] for sub in metadata_object.values()
\*  if 'gen3_discovery' in sub.keys()]
discovery(object) ==
    IF \E k \in 1..Len(object) : object[k].type # "dict"
    THEN Raised("AttributeError")
    ELSE Returned(
             LET kept == SelectSeq([k \in 1..Len(object) |-> k],
                             LAMBDA k : "gen3_discovery" \in object[k].keys)
             IN  [k \in 1..Len(kept) |-> object[kept[k]].gen3_discovery])

\* pd.json_normalize of a list of flat dicts: one row per dict, a column
\* per key of any dict, NaN where a dict lacks the key.
json_normalize(dicts) ==
    LET columns == UNION {DOMAIN dicts[k] : k \in 1..Len(dicts)}
    IN  DataFrame(columns,
                  [k \in 1..Len(dicts) |->
                      [c \in columns |->
                          IF c \in DOMAIN dicts[k] THEN dicts[k][c] ELSE NaN]])

\* The objects the BACPAC cell pulls, and the files of the other notebooks.
PulledObjects ==
    <<"dg.H34L/80f0a338-18e0-48de-b70f-cdabd63f67d9",
      "dg.H34L/530fd95c-48b6-488e-a699-9377180bd82d",
      "dg.H34L/654d7f1f-b61c-49a9-8a74-c82400fa4c27">>

\* The credential file the ACTT1 notebook tells the user to upload, and the
\* one its pull command is given with --auth.
InstructedCredentials == "credentials.json"
AuthCredentials == "credentials-4.json"

\* response = requests.get(...): the request fails to connect, or a
\* response comes back, of whatever status.
RequestsGet ==
    /\ pc = "requests_get"
    /\ UNCHANGED <<bacpacVars, acttVars, cellVars, tcgaVars>>
    /\ \/ /\ Raise("requests_get", "ConnectionError")
          /\ UNCHANGED response
       \/ /\ \E r \in Responses : response' = r
          /\ pc' = "json_loads"
          /\ UNCHANGED raised
    /\ UNCHANGED <<files, ran, metadata_object, meta_df>>

\* metadata_text = response.text; metadata_object = json.loads(metadata_text)
JsonLoads ==
    /\ pc = "json_loads"
    /\ UNCHANGED <<bacpacVars, acttVars, cellVars, tcgaVars>>
    /\ IF loads(response.text).raised # ""
       THEN /\ Raise("json_loads", loads(response.text).raised)
            /\ UNCHANGED metadata_object
       ELSE /\ metadata_object' = loads(response.text).value
            /\ pc' = "json_normalize"
            /\ UNCHANGED raised
    /\ UNCHANGED <<files, ran, response, meta_df>>

\* meta_df = pd.json_normalize([sub['gen3_discovery'] for sub in ...])
FlattenMetadata ==
    /\ pc = "json_normalize"
    /\ UNCHANGED <<bacpacVars, acttVars, cellVars, tcgaVars>>
    /\ IF discovery(metadata_object).raised # ""
       THEN /\ Raise("json_normalize", discovery(metadata_object).raised)
            /\ UNCHANGED meta_df
       ELSE /\ meta_df' = json_normalize(discovery(metadata_object).value)
            /\ pc' = "select_metadata"
            /\ UNCHANGED raised
    /\ UNCHANGED <<files, ran, response, metadata_object>>

\* meta_df[['research_focus_area', 'study_description_summary',
\*          'institutions']].transpose()
SelectMetadata ==
    /\ pc = "select_metadata"
    /\ UNCHANGED <<bacpacVars, acttVars, cellVars, tcgaVars>>
    /\ IF {"research_focus_area", "study_description_summary", "institutions"}
              \subseteq meta_df.columns
       THEN pc' = "drs_pull" /\ UNCHANGED raised
       ELSE Raise("select_metadata", "KeyError")
    /\ UNCHANGED <<files, ran, response, metadata_object, meta_df>>

\* !gen3 drs-pull object <guid>, the next of the three lines of the cell:
\* the object arrives, or the command exits with an error status.
DrsPull ==
    /\ pc = "drs_pull"
    /\ UNCHANGED <<bacpacVars, acttVars, cellVars, tcgaVars>>
    /\ LET object == PulledObjects[Len(ran) + 1]
       IN  \E status \in {0, 1} :
               IF shell(status).raised # ""
               THEN /\ Raise("drs_pull", shell(status).raised)
                    /\ UNCHANGED <<files, ran>>
               ELSE /\ ran' = Append(ran, Ran(object, status,
                                 IF status = 0 THEN "" ELSE "pull failed"))
                    /\ files' = IF status = 0 THEN files \cup {object} ELSE files
                    /\ pc' = IF Len(ran) + 1 = Len(PulledObjects)
                             THEN "read_pulled" ELSE "drs_pull"
                    /\ UNCHANGED raised
    /\ UNCHANGED <<response, metadata_object, meta_df>>

\* The cells that follow read the pulled files with pd.read_csv, which
\* raises FileNotFoundError on a file that is not there.
ReadPulled ==
    /\ pc = "read_pulled"
    /\ UNCHANGED <<bacpacVars, acttVars, cellVars, tcgaVars>>
    /\ IF \A k \in 1..Len(PulledObjects) : PulledObjects[k] \in files
       THEN pc' = "acquired" /\ UNCHANGED raised
       ELSE Raise("read_pulled", "FileNotFoundError")
    /\ UNCHANGED <<files, ran, response, metadata_object, meta_df>>

\* !gen3 --endpoint accessclinicaldata.niaid.nih.gov --auth credentials-4.json
\*     drs-pull object dg.NACD/... --no-unpack-packages
\* The command cannot authenticate without the file it names; with it, the
\* package arrives or the service fails.
ActtPull ==
    /\ pc = "actt1_pull"
    /\ UNCHANGED <<bacpacVars, acttVars, cellVars, tcgaVars>>
    /\ \E result \in
           IF AuthCredentials \in files
           THEN {Ran("actt1_pull", 0, ""), Ran("actt1_pull", 1, "pull failed")}
           ELSE {Ran("actt1_pull", 1, "no credentials file")} :
           IF shell(result.status).raised # ""
           THEN /\ Raise("actt1_pull", shell(result.status).raised)
                /\ UNCHANGED <<files, ran>>
           ELSE /\ ran' = Append(ran, result)
                /\ files' = IF result.status = 0
                            THEN files \cup {"ACTT1_Datasets.zip"} ELSE files
                /\ pc' = "extractall"
                /\ UNCHANGED raised
    /\ UNCHANGED <<response, metadata_object, meta_df>>

\* with zipfile.ZipFile(path_to_zip_file, 'r') as zip_ref:
\*     zip_ref.extractall()
ExtractAll ==
    /\ pc = "extractall"
    /\ UNCHANGED <<bacpacVars, acttVars, cellVars, tcgaVars>>
    /\ IF "ACTT1_Datasets.zip" \in files
       THEN /\ files' = files \cup {"ACTT1_Datasets/ACTT_1_original/ACTT1.csv"}
            /\ pc' = "acquired"
            /\ UNCHANGED raised
       ELSE /\ Raise("extractall", "FileNotFoundError")
            /\ UNCHANGED files
    /\ UNCHANGED <<ran, response, metadata_object, meta_df>>

\* system("wget https://gdc.cancer.gov/.../gdc-client_v1.6.1_Ubuntu_x64.zip")
Wget ==
    /\ pc = "wget"
    /\ UNCHANGED <<bacpacVars, acttVars, cellVars, tcgaVars>>
    /\ \E status \in {0, 1} :
           IF shell(status).raised # ""
           THEN /\ Raise("wget", shell(status).raised)
                /\ UNCHANGED <<files, ran>>
           ELSE /\ ran' = Append(ran, Ran("wget", status,
                             IF status = 0 THEN "" ELSE "download failed"))
                /\ files' = IF status = 0
                            THEN files \cup {"gdc-client_v1.6.1_Ubuntu_x64.zip"}
                            ELSE files
                /\ pc' = "unzip"
                /\ UNCHANGED raised
    /\ UNCHANGED <<response, metadata_object, meta_df>>

\* unzip("gdc-client_v1.6.1_Ubuntu_x64.zip", exdir="."): R's unzip warns
\* about a file it cannot open and returns; it raises no error.
Unzip ==
    /\ pc = "unzip"
    /\ UNCHANGED <<bacpacVars, acttVars, cellVars, tcgaVars>>
    /\ IF "gdc-client_v1.6.1_Ubuntu_x64.zip" \in files
       THEN /\ files' = files \cup {"gdc-client"}
            /\ ran' = Append(ran, Ran("unzip", 0, ""))
       ELSE /\ ran' = Append(ran, Ran("unzip", 1, "cannot open zip file"))
            /\ UNCHANGED files
    /\ pc' = "acquired"
    /\ UNCHANGED <<raised, response, metadata_object, meta_df>>

\* A kernel starts on the acquisition cells of its notebook, in a working
\* directory that holds the credential files the user uploaded.
InitAcquire ==
    /\ pc \in {"requests_get", "actt1_pull", "wget"}
    /\ raised = NotRaised
    /\ IdleBACPAC
    /\ IdleACTT1
    /\ IdleCells
    /\ IdleTCGA
    /\ files \in SUBSET {InstructedCredentials, AuthCredentials}
    /\ ran = <<>>
    /\ response = NoResponse
    /\ metadata_object = <<>>
    /\ meta_df = Unbound

NextAcquire ==
    \/ RequestsGet
    \/ JsonLoads
    \/ FlattenMetadata
    \/ SelectMetadata
    \/ DrsPull
    \/ ReadPulled
    \/ ActtPull
    \/ ExtractAll
    \/ Wget
    \/ Unzip

SpecAcquire == InitAcquire /\ [][NextAcquire]_vars

-----------------------------------------------------------------------------
(* What the claims on the acquisition cells speak of.                      *)

\* The run ended with an exception of the statement.
RaisedAt(statement) == pc = "raised" /\ raised.statement = statement

\* The commands of the acquisition cells that are command lines.
ShellStatements == {"drs_pull", "actt1_pull", "wget", "unzip"}

\* C12 as stated: Failure propagation in data acquisition: when an
\* acquisition command fails (a gen3 drs-pull of an object, the wget
\* download, the metadata HTTP request returning an error status), the
\* failure terminates the cell at that command, so no later command of the
\* cell runs and no later stage starts on the missing data.
C12_FailureEndsCell ==
    /\ \A k \in 1..Len(ran) :
           ran[k].status # 0 => (k = Len(ran) /\ pc = "raised")
    /\ response.status_code >= 400 => RaisedAt("requests_get")

\* C12, amended: only an exception raised in the kernel ends a cell.  A
\* command line run with "!" or system() that exits with an error status
\* raises nothing, so every later line of its cell runs (all three pulls,
\* the unzip after the wget, the unpacking after the ACTT1 pull); a
\* metadata request answered with an error status raises nothing either,
\* and the cell goes on to parse the error body.  What is missing shows
\* later, as the FileNotFoundError of the statement that reads it, or as
\* the JSONDecodeError, AttributeError or KeyError of the statement that
\* parses the error body.
C12_OnlyExceptionsEndCell ==
    /\ pc = "raised" => raised.statement \notin ShellStatements
    /\ RaisedAt("requests_get")
           => raised.exception = "ConnectionError" /\ response = NoResponse
    /\ (pc = "read_pulled" \/ RaisedAt("read_pulled") \/
        (pc = "acquired" /\ meta_df # Unbound))
           => [k \in 1..Len(ran) |-> ran[k].command] = PulledObjects
    /\ (pc = "acquired" /\ meta_df # Unbound)
           => \A k \in 1..Len(ran) : ran[k].status = 0
    /\ \A k \in 1..Len(ran) :
           /\ (ran[k].command = "wget" /\ pc # "unzip")
                  => /\ Len(ran) = 2
                     /\ ran[2].command = "unzip"
                     /\ pc = "acquired"
           /\ (ran[k].command = "actt1_pull" /\ ran[k].status # 0)
                  => \/ pc = "extractall"
                     \/ /\ RaisedAt("extractall")
                        /\ raised.exception = "FileNotFoundError"
    /\ response.status_code >= 400
           => \/ pc = "json_loads"
              \/ RaisedAt("json_loads") /\ raised.exception = "JSONDecodeError"
              \/ pc = "json_normalize"
              \/ RaisedAt("json_normalize")
                     /\ raised.exception = "AttributeError"

\* The first pull failed and the third one ran and brought its object.
C12_Witness ==
    /\ pc = "read_pulled"
    /\ ran[1].status # 0
    /\ ran[3].status = 0
    /\ PulledObjects[3] \in files

\* The flattening statement has run and raised nothing.
Flattened ==
    \/ pc \in {"select_metadata", "drs_pull", "read_pulled"}
    \/ RaisedAt("select_metadata")
    \/ RaisedAt("read_pulled")
    \/ pc = "acquired" /\ meta_df # Unbound

\* The records of the response whose value holds a gen3_discovery block.
WithDiscovery ==
    SelectSeq(metadata_object, LAMBDA sub : "gen3_discovery" \in sub.keys)

\* C14: Metadata flattening: for every JSON object keyed by record
\* identifier, the flattened table meta_df has exactly one row per record
\* whose value contains a gen3_discovery block, in response order, and a
\* record without that block is skipped without raising an error.
C14_OneRowPerDiscoveryBlock ==
    /\ Flattened =>
           /\ Len(meta_df.rows) = Len(WithDiscovery)
           /\ \A k \in 1..Len(WithDiscovery) :
                  \A c \in DOMAIN WithDiscovery[k].gen3_discovery :
                      meta_df.rows[k][c] = WithDiscovery[k].gen3_discovery[c]
    /\ RaisedAt("json_normalize")
           => \E k \in 1..Len(metadata_object) :
                  metadata_object[k].type # "dict"

\* Two records came back, the first without the block, the second with it.
C14_Witness ==
    /\ Flattened
    /\ Len(metadata_object) = 2
    /\ "gen3_discovery" \notin metadata_object[1].keys
    /\ "gen3_discovery" \in metadata_object[2].keys
    /\ Len(meta_df.rows) = 1

\* C16: Credential precondition of the ACTT1 bulk pull: the pull command
\* authenticates with the credential file the notebook tells the user to
\* supply (credentials.json in the working directory), so a user who
\* followed that instruction can run the pull.
C16_SuppliedCredentialsSuffice ==
    \A k \in 1..Len(ran) :
        (ran[k].command = "actt1_pull" /\ InstructedCredentials \in files)
            => ran[k].output # "no credentials file"

-----------------------------------------------------------------------------
(* The cells of the three notebooks as what they do to the names of the    *)
(* kernel: a statement binds a name to a value it creates (an assignment,  *)
(* an import, a def, a loop variable), or modifies in place the value a    *)
(* name is bound to (an item or column assignment, an inplace method, a    *)
(* fit, a drawing on an axes, an assignment into a namespace).             *)

Binds(cell, line, name) ==
    [cell |-> cell, line |-> line, op |-> "bind", name |-> name]

Modifies(cell, line, name) ==
    [cell |-> cell, line |-> line, op |-> "modify", name |-> name]

\* The binding and modifying statements of the code cells, in order, with
\* the number of their code cell in the file and their line.  The body of
\* a loop stands once.
Effects ==
    [
      BACPAC |->
          <<Binds(1, 38, "pd"), Binds(1, 39, "plotly"), Binds(1, 40, "go"),
             Binds(1, 41, "px"), Binds(1, 42, "make_subplots"),
             Binds(1, 43, "pio"), Binds(1, 44, "Path"), Binds(1, 45, "np"),
             Binds(1, 46, "json"), Binds(1, 47, "requests"),
             Binds(1, 48, "os"), Binds(2, 69, "response"),
             Binds(2, 70, "metadata_text"), Binds(2, 71, "metadata_object"),
             Binds(2, 72, "meta_df"), Binds(4, 112, "demo_bacpac"),
             Binds(4, 116, "age_list"), Binds(4, 117, "age_group"),
             Binds(4, 129, "agegrouplist"), Modifies(4, 130, "demo_bacpac"),
             Binds(4, 133, "df1"), Binds(4, 134, "df2"),
             Binds(4, 135, "df3"), Binds(5, 149, "new_df2"),
             Modifies(5, 150, "new_df2"), Binds(5, 151, "new_df2"),
             Binds(5, 153, "fig1"), Modifies(5, 156, "fig1"),
             Binds(6, 176, "substance_df"),
             Binds(6, 179, "find_participant"),
             Binds(6, 185, "substance_participant_id"),
             Modifies(6, 186, "substance_df"),
             Binds(6, 187, "demo_combine_substance"),
             Binds(6, 191, "find_timepoint"),
             Modifies(6, 200, "demo_combine_substance"),
             Binds(6, 203, "opioid_crosstab"), Binds(6, 205, "new_opioid"),
             Modifies(6, 206, "new_opioid"), Binds(6, 207, "new_opioid"),
             Binds(6, 211, "fig2"), Modifies(6, 213, "fig2"),
             Binds(6, 214, "data"), Modifies(6, 215, "fig2"),
             Binds(7, 235, "opioid_gender"),
             Binds(7, 237, "new_opioid_gender"),
             Modifies(7, 238, "new_opioid_gender"),
             Binds(7, 239, "new_opioid_gender"), Binds(7, 241, "fig3"),
             Modifies(7, 244, "fig3"), Binds(8, 268, "function_df"),
             Binds(8, 269, "function_participant_id"),
             Modifies(8, 270, "function_df"),
             Binds(8, 271, "demo_combine_function"),
             Modifies(8, 273, "demo_combine_function"),
             Binds(8, 276, "ethnicity_PRPF6BT"), Binds(9, 291, "fig5"),
             Modifies(9, 298, "fig5"), Modifies(9, 301, "fig5"),
             Modifies(9, 304, "fig5"), Modifies(9, 307, "fig5"),
             Modifies(9, 310, "fig5"), Modifies(9, 313, "fig5"),
             Modifies(9, 317, "fig5"), Modifies(9, 318, "fig5"),
             Modifies(9, 319, "fig5"), Modifies(9, 321, "fig5"),
             Modifies(9, 324, "fig5"), Modifies(9, 326, "fig5"),
             Modifies(9, 328, "fig5"), Modifies(9, 330, "fig5") >>,
      ACTT1 |->
          <<Binds(1, 69, "zipfile"), Binds(1, 70, "pd"), Binds(1, 71, "np"),
             Binds(1, 72, "warnings"), Binds(1, 76, "TableOne"),
             Binds(1, 76, "load_dataset"), Binds(1, 77, "plt"),
             Binds(1, 78, "statistics"), Binds(1, 79, "KaplanMeierFitter"),
             Binds(1, 79, "CoxPHFitter"), Binds(1, 80, "logrank_test"),
             Binds(1, 81, "add_at_risk_counts"), Binds(1, 82, "dmatrices"),
             Binds(1, 83, "stats"), Binds(1, 84, "string"),
             Binds(3, 109, "path_to_zip_file"), Binds(3, 111, "zip_ref"),
             Binds(4, 128, "data"), Binds(5, 201, "columns"),
             Binds(5, 212, "categorical"), Binds(5, 222, "groupby"),
             Binds(5, 223, "labels"), Binds(5, 234, "mytable"),
             Binds(6, 277, "ix"), Binds(6, 279, "ax"),
             Binds(6, 281, "kmf_exp"), Modifies(6, 282, "kmf_exp"),
             Modifies(6, 282, "ax"), Binds(6, 282, "ax"),
             Binds(6, 289, "kmf_control"), Modifies(6, 290, "kmf_control"),
             Modifies(6, 290, "ax"), Binds(6, 290, "ax"),
             Modifies(6, 296, "ax"), Modifies(6, 297, "ax"),
             Modifies(6, 298, "ax"), Modifies(6, 299, "ax"),
             Modifies(6, 300, "ax"), Binds(6, 302, "add_at_risk_counts"),
             Modifies(6, 305, "ax"), Binds(7, 327, "group1"),
             Binds(7, 328, "group2"), Binds(7, 329, "T"), Binds(7, 330, "E"),
             Binds(7, 331, "T1"), Binds(7, 332, "E1"),
             Binds(7, 334, "clinical_status_list"),
             Modifies(7, 335, "clinical_status_list"), Binds(7, 336, "fig"),
             Binds(7, 336, "axes"), Modifies(7, 337, "fig"),
             Binds(7, 341, "axes"), Binds(7, 343, "i"),
             Binds(7, 343, "clinical_status"), Binds(7, 345, "ix"),
             Binds(7, 346, "kmf_control"), Binds(7, 347, "kmf_exp"),
             Modifies(7, 348, "kmf_exp"), Modifies(7, 348, "axes"),
             Binds(7, 348, "ax"), Modifies(7, 351, "kmf_control"),
             Modifies(7, 351, "axes"), Binds(7, 351, "ax"),
             Modifies(7, 354, "ax"), Modifies(7, 355, "ax"),
             Modifies(7, 356, "ax"), Modifies(7, 357, "ax"),
             Modifies(7, 358, "ax"), Modifies(7, 359, "ax"),
             Binds(8, 398, "di_race"), Binds(8, 407, "di_ethnic"),
             Binds(8, 413, "di_sex"), Binds(8, 415, "data1"),
             Binds(8, 416, "age_category"), Modifies(8, 419, "data1"),
             Binds(8, 421, "symp_category"), Binds(8, 424, "symp_category"),
             Modifies(8, 425, "data1"), Modifies(8, 426, "data1"),
             Binds(8, 428, "model_expr"), Binds(8, 430, "y"),
             Binds(8, 430, "X"), Binds(8, 431, "X"), Binds(9, 449, "cph"),
             Modifies(9, 450, "cph") >>,
      TCGA |->
          <<Binds(11, 562, "GDCRNATools::gdcGetURL"),
             Binds(11, 563, "dplyr"), Binds(11, 564, "tidyr"),
             Binds(13, 605, "gdcGetURL_new"), Binds(13, 665, "toolenv"),
             Modifies(13, 666, "GDCRNATools::gdcGetURL"),
             Modifies(13, 667, "GDCRNATools::gdcGetURL"),
             Binds(13, 668, "gdcGetURL"),
             Modifies(13, 669, "GDCRNATools::gdcGetURL"),
             Binds(14, 689, "project"), Binds(14, 690, "rnadir"),
             Binds(15, 717, "metaMatrix.RNA"),
             Binds(15, 721, "metaMatrix.RNA"),
             Binds(15, 724, "metaMatrix.RNA"),
             Binds(18, 772, "gender_counts"),
             Binds(18, 773, "sample_type_counts"),
             Binds(18, 774, "vital_status_counts"),
             Modifies(18, 776, "gender_counts"),
             Modifies(18, 777, "gender_counts"),
             Modifies(18, 778, "sample_type_counts"),
             Modifies(18, 779, "sample_type_counts"),
             Modifies(18, 780, "vital_status_counts"),
             Modifies(18, 781, "vital_status_counts"),
             Binds(18, 783, "combined_counts"),
             Binds(18, 784, "combined_counts"), Binds(19, 806, "merge_rna"),
             Binds(19, 837, "rnaCounts"), Binds(21, 876, "rnaExpr"),
             Binds(22, 896, "DEGAll_CHOL"), Binds(26, 977, "deALL_CHOL"),
             Binds(26, 980, "deLNC_CHOL"), Binds(26, 983, "dePC_CHOL"),
             Binds(29, 1043, "enrichOutput"), Binds(36, 1177, "survOutput"),
             Modifies(37, 1200, "survOutput"),
             Binds(37, 1201, "sorted_survOutput") >> ]

Names ==
    UNION {{Effects[nb][k].name : k \in 1..Len(Effects[nb])} :
              nb \in DOMAIN Effects}

\* An assignment read as a change of the variable that is there: the value
\* stays that of the cell that first bound the name.
bind_keep(owners, effect) ==
    IF owners[effect.name] = 0
    THEN [owners EXCEPT ![effect.name] = effect.cell]
    ELSE owners

\* name = value: the name is bound to a value the running cell created.
bind(owners, effect) == [owners EXCEPT ![effect.name] = effect.cell]

\* The statement the kernel runs next.
NextEffect == Effects[notebook][effect_i + 1]

Advance ==
    /\ effect_i' = effect_i + 1
    /\ pc' = IF effect_i + 1 = Len(Effects[notebook]) THEN "cells_done" ELSE "cells"
    /\ UNCHANGED <<raised, notebook, bacpacVars, acttVars, acquireVars,
                 tcgaVars>>

BindName ==
    /\ pc = "cells"
    /\ NextEffect.op = "bind"
    /\ namespace' = bind(namespace, NextEffect)
    /\ UNCHANGED foreign
    /\ Advance

\* The value is changed where it is; when another cell created it, the
\* statement is recorded.
ModifyValue ==
    /\ pc = "cells"
    /\ NextEffect.op = "modify"
    /\ foreign' = IF namespace[NextEffect.name] # NextEffect.cell
                  THEN foreign \cup {NextEffect}
                  ELSE foreign
    /\ UNCHANGED namespace
    /\ Advance

\* Any statement may raise what its library raises; the run ends there.
StatementRaises ==
    /\ pc = "cells"
    /\ Raise("cells", "Exception")
    /\ UNCHANGED <<notebook, effect_i, namespace, foreign, bacpacVars,
                   acttVars, acquireVars, tcgaVars>>

InitCells ==
    /\ pc = "cells"
    /\ raised = NotRaised
    /\ IdleBACPAC
    /\ IdleACTT1
    /\ IdleAcquire
    /\ IdleTCGA
    /\ notebook \in DOMAIN Effects
    /\ effect_i = 0
    /\ namespace = [name \in Names |-> 0]
    /\ foreign = {}

NextCells ==
    \/ BindName
    \/ ModifyValue
    \/ StatementRaises

SpecCells == InitCells /\ [][NextCells]_vars

-----------------------------------------------------------------------------
(* What the claim on the names of the kernel speaks of.                    *)

KnownForeign ==
    { Modifies(13, 666, "GDCRNATools::gdcGetURL"),
      Modifies(13, 667, "GDCRNATools::gdcGetURL"),
      Modifies(13, 669, "GDCRNATools::gdcGetURL"),
      Modifies(37, 1200, "survOutput") }

-----------------------------------------------------------------------------
(***************************************************************************)
(* ACTT1_accessclinical.ipynb, the TCGA cells: the metadata of the RNA-seq *)
(* samples is queried, merge_rna merges the quantification files of the    *)
(* download directory into one table of counts, and the cell shows the     *)
(* first rows of that table.                                               *)
(*                                                                         *)
(* An R data frame is its class, its column names in order, its row names  *)
(* and its rows, a row being the sequence of its cells in the order of the *)
(* names.  A cell is a value record as above: a character string is a str, *)
(* a count an int and R's NA the missing value.  A vector is the same      *)
(* record with the class of its elements, no names, no row names, and one  *)
(* cell per row.                                                           *)
(***************************************************************************)

\* The most quantification files a download directory holds.
MaxFiles == 2

NA == [kind |-> "nan", s |-> <<>>, n |-> 0]

Frame(class, names, row_names, rows) ==
    [class |-> class, names |-> names, row_names |-> row_names, rows |-> rows]

\* The gene ids of the quantification files, in the order R sorts them: a
\* gene with its version, the copy of it on the pseudoautosomal region of Y,
\* a later version of the same gene, and another gene.
GeneOrder ==
    << <<"A", ".", "1">>,
       <<"A", ".", "1", "_", "P", "A", "R", "_", "Y">>,
       <<"A", ".", "2">>,
       <<"B", ".", "2">> >>

\* The four rows a STAR quantification file opens with.
SummaryRows ==
    << <<PyStr(<<"N", "_", "u", "n", "m", "a", "p", "p", "e", "d">>),
         PyInt(9)>>,
       <<PyStr(<<"N", "_", "m", "u", "l", "t", "i", "m", "a", "p", "p", "i",
                 "n", "g">>), PyInt(8)>>,
       <<PyStr(<<"N", "_", "n", "o", "F", "e", "a", "t", "u", "r", "e">>),
         PyInt(6)>>,
       <<PyStr(<<"N", "_", "a", "m", "b", "i", "g", "u", "o", "u", "s">>),
         PyInt(4)>> >>

\* The gene rows a quantification file may hold: gene id and unstranded
\* count.  A file names a gene once.
GeneRows ==
    { << <<PyStr(GeneOrder[1]), PyInt(5)>>, <<PyStr(GeneOrder[4]), PyInt(7)>> >>,
      << <<PyStr(GeneOrder[1]), PyInt(1)>>, <<PyStr(GeneOrder[2]), PyInt(0)>> >>,
      << <<PyStr(GeneOrder[4]), PyInt(3)>> >>,
      << <<PyStr(GeneOrder[3]), PyInt(2)>> >> }

\* The names list.files can return, in the order it returns them.
FileNames == <<"f1.tsv", "f2.tsv", "f3.tsv">>

\* What list.files returns for a directory of at most n quantification
\* files: the files in the order of their names, each with its rows.
FileLists(n) ==
    LET File(k, rows) == [file_name |-> FileNames[k],
                          rows |-> SummaryRows \o rows]
        picks == UNION {[1..m -> (1..Len(FileNames)) \X GeneRows] : m \in 0..n}
    IN  { [k \in 1..Len(p) |-> File(p[k][1], p[k][2])] :
            p \in {q \in picks :
                      \A a, b \in 1..Len(q) : a < b => q[a][1] < q[b][1]} }

\* The rows the metadata of the project can hold: the file, its sample and
\* the type of the sample.
MetaRows ==
    << [file_name |-> "f1.tsv", sample |-> "S1",
        sample_type |-> "PrimaryTumor"],
       [file_name |-> "f2.tsv", sample |-> "S2",
        sample_type |-> "SolidTissueNormal"],
       [file_name |-> "f3.tsv", sample |-> "S3",
        sample_type |-> "PrimaryTumor"] >>

\* gdcParseMetadata and the two filters: the samples of the project in the
\* order the query lists them, each sample once, every one a primary tumor
\* or a solid tissue normal.
MetaMatrices ==
    LET orders == UNION {[1..m -> 1..Len(MetaRows)] : m \in 0..Len(MetaRows)}
    IN  { [k \in 1..Len(o) |-> MetaRows[o[k]]] :
            o \in {q \in orders :
                      \A a, b \in 1..Len(q) : a # b => q[a] # q[b]} }

\* read.csv(file, sep="\t", skip=1, header=TRUE): the rows under the header,
\* numbered from 1.
read_csv(file) ==
    Frame("data.frame", <<"gene_id", "unstranded">>,
          [k \in 1..Len(file.rows) |-> PyInt(k)], file.rows)

\* df[ix, ] for positions ix: the rows at these positions under the row
\* names they had.
Rows(df, ix) ==
    Frame(df.class, df.names,
          [k \in 1..Len(ix) |-> df.row_names[ix[k]]],
          [k \in 1..Len(ix) |-> df.rows[ix[k]]])

\* df[, js] for column positions js: one column left is dropped to the
\* vector of its cells, which carries neither the names nor the row names.
Columns(df, js) ==
    IF Len(js) = 1
    THEN Frame(IF \A k \in 1..Len(df.rows) : df.rows[k][js[1]].kind = "str"
               THEN "character" ELSE "integer",
               <<>>, <<>>,
               [k \in 1..Len(df.rows) |-> <<df.rows[k][js[1]]>>])
    ELSE Frame(df.class, [j \in 1..Len(js) |-> df.names[js[j]]], df.row_names,
               [k \in 1..Len(df.rows) |->
                   [j \in 1..Len(js) |-> df.rows[k][js[j]]]])

\* which(x) of a logical vector x: the positions that hold TRUE, in order.
which(x) == SelectSeq([k \in 1..Len(x) |-> k], LAMBDA k : x[k])

\* grepl(pattern, x, fixed=TRUE) for one string x.
grepl(pattern, x) ==
    \E k \in 1..Len(x) :
        /\ k + Len(pattern) - 1 <= Len(x)
        /\ SubSeq(x, k, k + Len(pattern) - 1) = pattern

\* sapply(strsplit(x, "\\."), `[`, 1) for one string x: what stands before
\* the first "."; the empty string splits into nothing, whose first element
\* is NA.
first_piece(x) ==
    IF x = <<>> THEN NA
    ELSE IF \E k \in 1..Len(x) : x[k] = "."
    THEN PyStr(SubSeq(x, 1, (CHOOSE k \in 1..Len(x) :
                                 /\ x[k] = "."
                                 /\ \A j \in 1..(k - 1) : x[j] # ".") - 1))
    ELSE PyStr(x)

\* The lists of a list, one after the other.
RECURSIVE flatten(_)
flatten(lists) ==
    IF Len(lists) = 0 THEN <<>>
    ELSE IF Len(lists) = 1 THEN lists[1]
    ELSE flatten(SubSeq(lists, 1, Len(lists) \div 2))
             \o flatten(SubSeq(lists, (Len(lists) \div 2) + 1, Len(lists)))

\* merge(x, y, by.x="gene_id", by.y="gene_id", all=TRUE): for every gene id
\* of either table, in sorted order, every row of x with that id joined to
\* every row of y with it; a table without the id contributes NA.  The id
\* comes first, then the other columns of x, then those of y; a name both
\* tables have gets the suffix .x or .y.  The rows are numbered anew.
merge_all(x, y) ==
    LET bx == CHOOSE j \in 1..Len(x.names) : x.names[j] = "gene_id"
        by == CHOOSE j \in 1..Len(y.names) : y.names[j] = "gene_id"
        rest(row, b) ==
            [j \in 1..(Len(row) - 1) |-> row[IF j < b THEN j ELSE j + 1]]
        xn == rest(x.names, bx)
        yn == rest(y.names, by)
        ids(df, b) == {df.rows[k][b] : k \in 1..Len(df.rows)}
        keys == SelectSeq([k \in 1..Len(GeneOrder) |-> PyStr(GeneOrder[k])],
                          LAMBDA g : g \in ids(x, bx) \cup ids(y, by))
        side(df, b, key) ==
            LET found == SelectSeq(df.rows, LAMBDA r : r[b] = key)
            IN  IF Len(found) = 0
                THEN << [j \in 1..Len(df.names) |-> NA] >>
                ELSE found
        joined(key) ==
            LET xs == side(x, bx, key)
                ys == side(y, by, key)
            IN  [k \in 1..(Len(xs) * Len(ys)) |->
                    <<key>> \o rest(xs[((k - 1) \div Len(ys)) + 1], bx)
                            \o rest(ys[((k - 1) % Len(ys)) + 1], by)]
        rows == flatten([k \in 1..Len(keys) |-> joined(keys[k])])
    IN  Frame("data.frame",
              <<"gene_id">>
                  \o [j \in 1..Len(xn) |->
                        IF \E i \in 1..Len(yn) : yn[i] = xn[j]
                        THEN xn[j] \o ".x" ELSE xn[j]]
                  \o [j \in 1..Len(yn) |->
                        IF \E i \in 1..Len(xn) : xn[i] = yn[j]
                        THEN yn[j] \o ".y" ELSE yn[j]],
              [k \in 1..Len(rows) |-> PyInt(k)],
              rows)

\* metaMatrix.RNA <- gdcParseMetadata(...), gdcFilterDuplicate,
\* gdcFilterSampleType.
ParseMetadata ==
    /\ pc = "parse_metadata"
    /\ UNCHANGED <<bacpacVars, acttVars, acquireVars, cellVars>>
    /\ metaMatrix_RNA' \in MetaMatrices
    /\ pc' = "list_files"
    /\ UNCHANGED <<raised, filelist, merge_i, combined_df, rnaCounts,
                 DEGAll_CHOL, url>>

\* merge_rna: filelist <- list.files(fdir, pattern="*.tsv$", ...), and the
\* loop starts on the first of 1:length(filelist).
ListFiles ==
    /\ pc = "list_files"
    /\ UNCHANGED <<bacpacVars, acttVars, acquireVars, cellVars>>
    /\ filelist' \in FileLists(MaxFiles)
    /\ merge_i' = 1
    /\ pc' = "merge_file"
    /\ UNCHANGED <<raised, metaMatrix_RNA, combined_df, rnaCounts,
                 DEGAll_CHOL, url>>

\* merge_rna, one pass of the loop.  1:length(filelist) of an empty list is
\* c(1, 0): the first pass reads filelist[1], which is NA, and read.csv
\* fails on it.  A file the metadata does not name has a sample name of
\* length zero, which names(idf_subset)[2] <- refuses.
MergeFile ==
    /\ pc = "merge_file"
    /\ UNCHANGED <<bacpacVars, acttVars, acquireVars, cellVars>>
    /\ IF merge_i > Len(filelist)
       THEN /\ Raise("merge_file", "invalid 'description' argument")
            /\ UNCHANGED <<merge_i, combined_df>>
       ELSE LET iname == filelist[merge_i].file_name
                isamplename ==
                    LET at == which([k \in 1..Len(metaMatrix_RNA) |->
                                        metaMatrix_RNA[k].file_name = iname])
                    IN  [k \in 1..Len(at) |-> metaMatrix_RNA[at[k]].sample]
                idf == read_csv(filelist[merge_i])
                remove == 1..4
                idf_subset ==
                    Columns(Rows(idf, which([k \in 1..Len(idf.rows) |->
                                                k \notin remove])),
                            <<1, 2>>)
            IN  IF Len(isamplename) = 0
                THEN /\ Raise("merge_file", "replacement has length zero")
                     /\ UNCHANGED <<merge_i, combined_df>>
                ELSE LET named == [idf_subset EXCEPT
                                       !.names[2] = isamplename[1]]
                     IN  /\ combined_df' = IF merge_i = 1
                                           THEN named
                                           ELSE merge_all(combined_df, named)
                         /\ merge_i' = merge_i + 1
                         /\ pc' = IF merge_i = Len(filelist)
                                  THEN "merge_return" ELSE "merge_file"
                         /\ UNCHANGED raised
    /\ UNCHANGED <<metaMatrix_RNA, filelist, rnaCounts, DEGAll_CHOL, url>>

\* merge_rna after the loop, and rnaCounts <- its value: the rows of the
\* PAR_Y gene ids go, the ids lose their version, become the row names, and
\* the gene_id column is taken out.  rownames<- refuses a name that occurs
\* twice and a missing one.
MergeReturn ==
    /\ pc = "merge_return"
    /\ UNCHANGED <<bacpacVars, acttVars, acquireVars, cellVars>>
    /\ LET g == CHOOSE j \in 1..Len(combined_df.names) :
                    combined_df.names[j] = "gene_id"
           kept == Rows(combined_df,
                        which([k \in 1..Len(combined_df.rows) |->
                                  ~grepl(<<"P", "A", "R", "_", "Y">>,
                                         combined_df.rows[k][g].s)]))
           stripped == [kept EXCEPT !.rows =
                      [k \in 1..Len(kept.rows) |->
                          [kept.rows[k] EXCEPT
                              ![g] = first_piece(kept.rows[k][g].s)]]]
           gene_id == [k \in 1..Len(stripped.rows) |-> stripped.rows[k][g]]
           named == [stripped EXCEPT !.row_names = gene_id]
       IN  IF \E k \in 1..Len(gene_id) : gene_id[k] = NA
           THEN /\ Raise("merge_return",
                         "missing values in 'row.names' are not allowed")
                /\ UNCHANGED <<combined_df, rnaCounts>>
           ELSE IF \E a, b \in 1..Len(gene_id) : a # b /\ gene_id[a] = gene_id[b]
           THEN /\ Raise("merge_return",
                         "duplicate 'row.names' are not allowed")
                /\ UNCHANGED <<combined_df, rnaCounts>>
           ELSE /\ combined_df' =
                       Columns(named,
                               which([j \in 1..Len(named.names) |->
                                         named.names[j] # "gene_id"]))
                /\ rnaCounts' = combined_df'
                /\ pc' = "show_counts"
                /\ UNCHANGED raised
    /\ UNCHANGED <<metaMatrix_RNA, filelist, merge_i, DEGAll_CHOL, url>>

\* rnaCounts[1:5,]: two subscripts are more than a vector has dimensions.
ShowCounts ==
    /\ pc = "show_counts"
    /\ UNCHANGED <<bacpacVars, acttVars, acquireVars, cellVars>>
    /\ IF rnaCounts.class = "data.frame"
       THEN pc' = "de_analysis" /\ UNCHANGED raised
       ELSE Raise("show_counts", "incorrect number of dimensions")
    /\ UNCHANGED tcgaVars

\* gdcDEAnalysis(counts = rnaCounts, group = metaMatrix.RNA$sample_type,
\* comparison = 'PrimaryTumor-SolidTissueNormal', method = 'DESeq2'): the
\* group vector becomes the column data of the counts by position, the k-th
\* label on the k-th count column; the names of the columns play no part.
\* DESeq2 refuses column data of another length than the counts have
\* columns, a missing count, and a design in which a group of the comparison
\* has no sample.
gdcDEAnalysis(counts, group) ==
    IF Len(counts.names) # Len(group)
    THEN Raised("ncol(countData) == nrow(colData) is not TRUE")
    ELSE IF \E k \in 1..Len(counts.rows), j \in 1..Len(counts.names) :
                counts.rows[k][j] = NA
    THEN Raised("NA values are not allowed in the count matrix")
    ELSE IF \E level \in {"PrimaryTumor", "SolidTissueNormal"} :
                \A k \in 1..Len(group) : group[k] # level
    THEN Raised("a group of the comparison has no sample")
    ELSE Returned([k \in 1..Len(group) |->
                      [sample |-> counts.names[k], group |-> group[k]]])

\* DEGAll_CHOL <- gdcDEAnalysis(...).
DEAnalysis ==
    /\ pc = "de_analysis"
    /\ UNCHANGED <<bacpacVars, acttVars, acquireVars, cellVars>>
    /\ LET called == gdcDEAnalysis(rnaCounts,
                                [k \in 1..Len(metaMatrix_RNA) |->
                                    metaMatrix_RNA[k].sample_type])
       IN  IF called.raised # ""
           THEN Raise("de_analysis", called.raised) /\ UNCHANGED DEGAll_CHOL
           ELSE /\ DEGAll_CHOL' = called.value
                /\ pc' = "tcga_done"
                /\ UNCHANGED raised
    /\ UNCHANGED <<metaMatrix_RNA, filelist, merge_i, combined_df, rnaCounts,
                   url>>

\* The R kernel starts on the cell that queries the metadata.
InitTCGA ==
    /\ pc = "parse_metadata"
    /\ raised = NotRaised
    /\ IdleBACPAC
    /\ IdleACTT1
    /\ IdleAcquire
    /\ IdleCells
    /\ IdleTCGA

NextTCGA ==
    \/ ParseMetadata
    \/ ListFiles
    \/ MergeFile
    \/ MergeReturn
    \/ ShowCounts
    \/ DEAnalysis

SpecTCGA == InitTCGA /\ [][NextTCGA]_vars

-----------------------------------------------------------------------------
(* What the claims on merge_rna speak of.                                  *)

\* merge_rna has returned and its value is bound to rnaCounts.
MergeRnaReturned ==
    pc \in {"show_counts", "de_analysis", "tcga_done"} \/
        (pc = "raised" /\ raised.statement \in {"show_counts", "de_analysis"})

\* The gene rows of a quantification file that count: those after its first
\* four rows whose gene id does not contain "PAR_Y".
CountedRows(file) ==
    SelectSeq(SubSeq(file.rows, 5, Len(file.rows)),
              LAMBDA r : ~grepl(<<"P", "A", "R", "_", "Y">>, r[1].s))

\* C20 as stated: merge_rna result shape: for a non-empty set of
\* quantification files, merge_rna returns a table with exactly one count
\* column per file and one row per gene id that occurs in any file, after
\* dropping the first four rows of each file and every gene id containing
\* "PAR_Y"; a gene missing from a file has a null count in that file's
\* column, the row names are the gene ids cut at the first ".", and no
\* gene_id column remains.
C20_MergeRnaShape ==
    (MergeRnaReturned /\ Len(filelist) >= 1) =>
        LET genes == UNION {{CountedRows(filelist[j])[k][1] :
                                k \in 1..Len(CountedRows(filelist[j]))} :
                               j \in 1..Len(filelist)}
        IN  /\ rnaCounts.class = "data.frame"
            /\ Len(rnaCounts.names) = Len(filelist)
            /\ \A j \in 1..Len(rnaCounts.names) :
                   rnaCounts.names[j] # "gene_id"
            /\ Len(rnaCounts.rows) = Cardinality(genes)
            /\ Len(rnaCounts.row_names) = Len(rnaCounts.rows)
            /\ {rnaCounts.row_names[k] : k \in 1..Len(rnaCounts.row_names)}
                   = {first_piece(g.s) : g \in genes}
            /\ \A k \in 1..Len(rnaCounts.rows), j \in 1..Len(filelist) :
                   LET of == SelectSeq(CountedRows(filelist[j]),
                                       LAMBDA r : first_piece(r[1].s)
                                                      = rnaCounts.row_names[k])
                   IN  rnaCounts.rows[k][j] =
                           IF Len(of) = 0 THEN NA ELSE of[1][2]

\* The sample type the metadata gives a sample.
TypeOf(sample) ==
    LET at == CHOOSE k \in 1..Len(metaMatrix_RNA) :
                  metaMatrix_RNA[k].sample = sample
    IN  metaMatrix_RNA[at].sample_type

\* C21 as stated: Sample alignment between counts and group labels: the
\* k-th count column of the table returned by merge_rna belongs to the
\* sample in the k-th row of metaMatrix.RNA, so the group vector
\* metaMatrix.RNA$sample_type passed to the differential-expression call
\* labels each count column with its own sample type, for every order in
\* which the files are listed.
C21_ColumnsAlignedWithGroups ==
    /\ (MergeRnaReturned /\ rnaCounts.class = "data.frame") =>
           \A k \in 1..Len(rnaCounts.names) :
               /\ k <= Len(metaMatrix_RNA)
               /\ rnaCounts.names[k] = metaMatrix_RNA[k].sample
    /\ pc = "tcga_done" =>
           \A k \in 1..Len(DEGAll_CHOL) :
               DEGAll_CHOL[k].group = TypeOf(DEGAll_CHOL[k].sample)

\* C22 as stated: merge_rna on files outside the metadata: merge_rna
\* completes without error for every set of files found under the
\* directory, including a file whose name matches no row of the metadata
\* after the duplicate and sample-type filters were applied, and the empty
\* set of files.
C22_MergeRnaCompletes ==
    ~RaisedAt("merge_file") /\ ~RaisedAt("merge_return")

\* The identifiers merge_rna makes of a merged table: the gene ids without
\* "PAR_Y", each cut at its first ".", in the order of the rows.
CutIds(merged) ==
    LET g == CHOOSE j \in 1..Len(merged.names) : merged.names[j] = "gene_id"
        kept == SelectSeq(merged.rows,
                          LAMBDA r : ~grepl(<<"P", "A", "R", "_", "Y">>,
                                            r[g].s))
    IN  [k \in 1..Len(kept) |-> first_piece(kept[k][g].s)]

\* C23 as stated: Distinct gene identifiers after version stripping: in
\* merge_rna, once the ids containing "PAR_Y" are removed, cutting each gene
\* id at the first "." never makes two rows share an identifier, so the row
\* names of the result are pairwise distinct.
C23_DistinctAfterStripping ==
    /\ RaisedAt("merge_return") =>
           \A a, b \in 1..Len(CutIds(combined_df)) :
               a # b => CutIds(combined_df)[a] # CutIds(combined_df)[b]
    /\ (MergeRnaReturned /\ rnaCounts.class = "data.frame") =>
           \A a, b \in 1..Len(rnaCounts.row_names) :
               a # b => rnaCounts.row_names[a] # rnaCounts.row_names[b]

-----------------------------------------------------------------------------
(***************************************************************************)
(* ACTT1_accessclinical.ipynb, gdcGetURL_new: the function the notebook    *)
(* puts in the place of GDCRNATools' gdcGetURL builds the query of the GDC *)
(* files endpoint for a project and a data type.  Its strings are          *)
(* sequences of characters, so that paste and URLencode do to them what    *)
(* they do in R.                                                           *)
(***************************************************************************)

\* The longest project id a call is given.
MaxIdLen == 3

\* The string constants of gdcGetURL_new; expanded is the thirteen entity
\* names the function pastes with "," between them.  other and lowercase
\* are two data types the function has no branch for.
URLText ==
    [
      urlAPI |->
          <<"h", "t", "t", "p", "s", ":", "/", "/", "a", "p", "i", ".",
            "g", "d", "c", ".", "c", "a", "n", "c", "e", "r", ".", "g",
            "o", "v", "/", "f", "i", "l", "e", "s", "?">>,
      RNAseq |->
          <<"R", "N", "A", "s", "e", "q">>,
      miRNAs |->
          <<"m", "i", "R", "N", "A", "s">>,
      Clinical |->
          <<"C", "l", "i", "n", "i", "c", "a", "l">>,
      pre_miRNAs |->
          <<"p", "r", "e", "-", "m", "i", "R", "N", "A", "s">>,
      TranscriptomeProfiling |->
          <<"T", "r", "a", "n", "s", "c", "r", "i", "p", "t", "o", "m",
            "e", " ", "P", "r", "o", "f", "i", "l", "i", "n", "g">>,
      GeneExpressionQuantification |->
          <<"G", "e", "n", "e", " ", "E", "x", "p", "r", "e", "s", "s",
            "i", "o", "n", " ", "Q", "u", "a", "n", "t", "i", "f", "i",
            "c", "a", "t", "i", "o", "n">>,
      STARCounts |->
          <<"S", "T", "A", "R", " ", "-", " ", "C", "o", "u", "n", "t",
            "s">>,
      IsoformExpressionQuantification |->
          <<"I", "s", "o", "f", "o", "r", "m", " ", "E", "x", "p", "r",
            "e", "s", "s", "i", "o", "n", " ", "Q", "u", "a", "n", "t",
            "i", "f", "i", "c", "a", "t", "i", "o", "n">>,
      BCGSCmiRNAProfiling |->
          <<"B", "C", "G", "S", "C", " ", "m", "i", "R", "N", "A", " ",
            "P", "r", "o", "f", "i", "l", "i", "n", "g">>,
      ClinicalSupplement |->
          <<"C", "l", "i", "n", "i", "c", "a", "l", " ", "S", "u", "p",
            "p", "l", "e", "m", "e", "n", "t">>,
      miRNAExpressionQuantification |->
          <<"m", "i", "R", "N", "A", " ", "E", "x", "p", "r", "e", "s",
            "s", "i", "o", "n", " ", "Q", "u", "a", "n", "t", "i", "f",
            "i", "c", "a", "t", "i", "o", "n">>,
      BCRXML |->
          <<"B", "C", "R", " ", "X", "M", "L">>,
      NA_character |->
          <<"N", "A">>,
      in_cases |->
          <<"{", "\"", "o", "p", "\"", ":", "\"", "i", "n", "\"", ",",
            "\"", "c", "o", "n", "t", "e", "n", "t", "\"", ":", "{", "\"",
            "f", "i", "e", "l", "d", "\"", ":", "\"", "c", "a", "s", "e",
            "s", ".">>,
      project_id_value |->
          <<"p", "r", "o", "j", "e", "c", "t", ".", "p", "r", "o", "j",
            "e", "c", "t", "_", "i", "d", "\"", ",", "\"", "v", "a", "l",
            "u", "e", "\"", ":", "[", "\"">>,
      close_list |->
          <<"\"", "]", "}", "}">>,
      in_files |->
          <<"{", "\"", "o", "p", "\"", ":", "\"", "i", "n", "\"", ",",
            "\"", "c", "o", "n", "t", "e", "n", "t", "\"", ":", "{", "\"",
            "f", "i", "e", "l", "d", "\"", ":", "\"", "f", "i", "l", "e",
            "s", ".">>,
      data_category_value |->
          <<"d", "a", "t", "a", "_", "c", "a", "t", "e", "g", "o", "r",
            "y", "\"", ",", "\"", "v", "a", "l", "u", "e", "\"", ":", "\"">>,
      close_value |->
          <<"\"", "}", "}">>,
      in_files_data_type |->
          <<"{", "\"", "o", "p", "\"", ":", "\"", "i", "n", "\"", ",",
            "\"", "c", "o", "n", "t", "e", "n", "t", "\"", ":", "{", "\"",
            "f", "i", "e", "l", "d", "\"", ":", "\"", "f", "i", "l", "e",
            "s", ".", "d", "a", "t", "a", "_", "t", "y", "p", "e", "\"",
            ",">>,
      value |->
          <<"\"", "v", "a", "l", "u", "e", "\"", ":", "\"">>,
      workflow_type_value |->
          <<"a", "n", "a", "l", "y", "s", "i", "s", ".", "w", "o", "r",
            "k", "f", "l", "o", "w", "_", "t", "y", "p", "e", "\"", ",",
            "\"", "v", "a", "l", "u", "e", "\"", ":", "\"">>,
      data_format_value |->
          <<"d", "a", "t", "a", "_", "f", "o", "r", "m", "a", "t", "\"",
            ",", "\"", "v", "a", "l", "u", "e", "\"", ":", "\"">>,
      filters |->
          <<"f", "i", "l", "t", "e", "r", "s", "=">>,
      and_open |->
          <<"{", "\"", "o", "p", "\"", ":", "\"", "a", "n", "d", "\"", ",",
            "\"", "c", "o", "n", "t", "e", "n", "t", "\"", ":", "[">>,
      and_close |->
          <<"]", "}">>,
      expand |->
          <<"e", "x", "p", "a", "n", "d", "=">>,
      expanded |->
          <<"a", "n", "a", "l", "y", "s", "i", "s", ",", "a", "n", "a",
            "l", "y", "s", "i", "s", ".", "i", "n", "p", "u", "t", "_",
            "f", "i", "l", "e", "s", ",", "a", "s", "s", "o", "c", "i",
            "a", "t", "e", "d", "_", "e", "n", "t", "i", "t", "i", "e",
            "s", ",", "c", "a", "s", "e", "s", ",", "c", "a", "s", "e",
            "s", ".", "d", "i", "a", "g", "n", "o", "s", "e", "s", ",",
            "c", "a", "s", "e", "s", ".", "d", "i", "a", "g", "n", "o",
            "s", "e", "s", ".", "t", "r", "e", "a", "t", "m", "e", "n",
            "t", "s", ",", "c", "a", "s", "e", "s", ".", "d", "e", "m",
            "o", "g", "r", "a", "p", "h", "i", "c", ",", "c", "a", "s",
            "e", "s", ".", "p", "r", "o", "j", "e", "c", "t", ",", "c",
            "a", "s", "e", "s", ".", "s", "a", "m", "p", "l", "e", "s",
            ",", "c", "a", "s", "e", "s", ".", "s", "a", "m", "p", "l",
            "e", "s", ".", "p", "o", "r", "t", "i", "o", "n", "s", ",",
            "c", "a", "s", "e", "s", ".", "s", "a", "m", "p", "l", "e",
            "s", ".", "p", "o", "r", "t", "i", "o", "n", "s", ".", "a",
            "n", "a", "l", "y", "t", "e", "s", ",", "c", "a", "s", "e",
            "s", ".", "s", "a", "m", "p", "l", "e", "s", ".", "p", "o",
            "r", "t", "i", "o", "n", "s", ".", "a", "n", "a", "l", "y",
            "t", "e", "s", ".", "a", "l", "i", "q", "u", "o", "t", "s",
            ",", "c", "a", "s", "e", "s", ".", "s", "a", "m", "p", "l",
            "e", "s", ".", "p", "o", "r", "t", "i", "o", "n", "s", ".",
            "s", "l", "i", "d", "e", "s">>,
      pretty |->
          <<"p", "r", "e", "t", "t", "y", "=", "t", "r", "u", "e">>,
      format |->
          <<"f", "o", "r", "m", "a", "t", "=", "J", "S", "O", "N">>,
      size |->
          <<"s", "i", "z", "e", "=", "1", "0", "0", "0", "0">>,
      other |->
          <<"m", "R", "N", "A">>,
      lowercase |->
          <<"r", "n", "a", "s", "e", "q">>
    ]

\* The project ids of at most n characters: letters, digits, "-" and, for
\* the encoding, a space.
ProjectIds(n) == UNION {[1..m -> {"T", "-", "1", " "}] : m \in 0..n}

\* The data types a call may name: the four of the function, two others,
\* and NA.
DataTypes ==
    {PyStr(URLText.RNAseq), PyStr(URLText.miRNAs), PyStr(URLText.Clinical),
     PyStr(URLText.pre_miRNAs), PyStr(URLText.other),
     PyStr(URLText.lowercase), NA}

\* paste(..., sep) without the separator between the parts.
paste_unseparated(parts, sep) == flatten(parts)

\* paste(..., sep) of character strings.
paste(parts, sep) ==
    flatten([k \in 1..Len(parts) |->
                IF k = 1 THEN parts[k] ELSE sep \o parts[k]])

\* URLencode(URL), with reserved = FALSE and repeated = FALSE: a URL that
\* already holds a "%" and two hexadecimal digits is returned as it is; in
\* any other every character that is neither a letter, a digit, one of
\* ._~- nor one of ][!$&'()*+,;=:/?@# becomes "%" and its code.
URLencode(URL) ==
    LET xdigit == {"0", "1", "2", "3", "4", "5", "6", "7", "8", "9",
                   "A", "B", "C", "D", "E", "F",
                   "a", "b", "c", "d", "e", "f"}
        code == (" " :> <<"%", "2", "0">>) @@ ("\"" :> <<"%", "2", "2">>)
                @@ ("%" :> <<"%", "2", "5">>) @@ ("{" :> <<"%", "7", "B">>)
                @@ ("}" :> <<"%", "7", "D">>)
    IN  IF \E k \in 1..Len(URL) :
               /\ k + 2 <= Len(URL)
               /\ URL[k] = "%"
               /\ URL[k + 1] \in xdigit
               /\ URL[k + 2] \in xdigit
        THEN URL
        ELSE flatten([k \in 1..Len(URL) |->
                         IF URL[k] \in DOMAIN code
                         THEN code[URL[k]] ELSE <<URL[k]>>])

\* gdcGetURL_new(project.id, data.type).  A data type that is NA stops the
\* first if; a data type without a branch leaves data.category unbound,
\* and the paste that reads it stops.  as.character of NA is "NA".
gdcGetURL_new(project_id, data_type) ==
    LET known == {PyStr(URLText.RNAseq), PyStr(URLText.miRNAs),
                  PyStr(URLText.Clinical), PyStr(URLText.pre_miRNAs)}
        data_category ==
            IF data_type = PyStr(URLText.Clinical)
            THEN URLText.Clinical ELSE URLText.TranscriptomeProfiling
        data_type_2 ==
            CASE data_type = PyStr(URLText.RNAseq) ->
                     URLText.GeneExpressionQuantification
              [] data_type = PyStr(URLText.miRNAs) ->
                     URLText.IsoformExpressionQuantification
              [] data_type = PyStr(URLText.Clinical) ->
                     URLText.ClinicalSupplement
              [] data_type = PyStr(URLText.pre_miRNAs) ->
                     URLText.miRNAExpressionQuantification
        workflow_type ==
            CASE data_type = PyStr(URLText.RNAseq) ->
                     PyStr(URLText.STARCounts)
              [] data_type = PyStr(URLText.miRNAs) ->
                     PyStr(URLText.BCGSCmiRNAProfiling)
              [] data_type = PyStr(URLText.Clinical) -> NA
              [] data_type = PyStr(URLText.pre_miRNAs) ->
                     PyStr(URLText.BCGSCmiRNAProfiling)
        project == paste(<<URLText.in_cases, URLText.project_id_value,
                           project_id, URLText.close_list>>, <<>>)
        dataCategory == paste(<<URLText.in_files, URLText.data_category_value,
                                data_category, URLText.close_value>>, <<>>)
        dataType == paste(<<URLText.in_files_data_type, URLText.value,
                            data_type_2, URLText.close_value>>, <<>>)
        workflowType ==
            paste(<<URLText.in_files, URLText.workflow_type_value,
                    IF workflow_type = NA
                    THEN URLText.NA_character ELSE workflow_type.s,
                    URLText.close_value>>, <<>>)
        dataFormat == paste(<<URLText.in_files, URLText.data_format_value,
                              URLText.BCRXML, URLText.close_value>>, <<>>)
        content ==
            IF workflow_type = NA
            THEN paste(<<project, dataCategory, dataType, dataFormat>>,
                       <<",">>)
            ELSE paste(<<project, dataCategory, dataType, workflowType>>,
                       <<",">>)
        filters ==
            paste(<<URLText.filters,
                    URLencode(paste(<<URLText.and_open, content,
                                      URLText.and_close>>, <<>>))>>, <<>>)
        expand == paste(<<URLText.expand, URLText.expanded>>, <<>>)
        payload == paste(<<filters, URLText.pretty, URLText.format,
                           URLText.size, expand>>, <<"&">>)
    IN  IF data_type = NA
        THEN Raised("missing value where TRUE/FALSE needed")
        ELSE IF data_type \notin known
        THEN Raised("object 'data.category' not found")
        ELSE Returned(paste(<<URLText.urlAPI, payload>>, <<>>))

\* A call of gdcGetURL_new, as gdcParseMetadata and gdcRNADownload make it
\* once the function stands in the namespace of the package.
GetURL ==
    /\ pc = "get_url"
    /\ UNCHANGED <<bacpacVars, acttVars, acquireVars, cellVars>>
    /\ \E project_id \in ProjectIds(MaxIdLen), data_type \in DataTypes :
           LET called == gdcGetURL_new(project_id, data_type)
           IN  /\ url' = [project_id |-> project_id, data_type |-> data_type,
                          value |-> called.value]
               /\ IF called.raised # ""
                  THEN Raise("get_url", called.raised)
                  ELSE pc' = "url_done" /\ UNCHANGED raised
    /\ UNCHANGED <<metaMatrix_RNA, filelist, merge_i, combined_df, rnaCounts,
                   DEGAll_CHOL>>

\* The kernel is about to call gdcGetURL_new.
InitURL ==
    /\ pc = "get_url"
    /\ raised = NotRaised
    /\ IdleBACPAC
    /\ IdleACTT1
    /\ IdleAcquire
    /\ IdleCells
    /\ IdleTCGA

NextURL == GetURL

SpecURL == InitURL /\ [][NextURL]_vars

-----------------------------------------------------------------------------
(* What the claim on gdcGetURL_new speaks of.                              *)

\* The texts a filter is read by: the field names of the four conditions
\* and of the data format, and the JSON around them.
FilterText ==
    [
      project_id |->
          <<"c", "a", "s", "e", "s", ".", "p", "r", "o", "j", "e", "c",
            "t", ".", "p", "r", "o", "j", "e", "c", "t", "_", "i", "d">>,
      data_category |->
          <<"f", "i", "l", "e", "s", ".", "d", "a", "t", "a", "_", "c",
            "a", "t", "e", "g", "o", "r", "y">>,
      data_type |->
          <<"f", "i", "l", "e", "s", ".", "d", "a", "t", "a", "_", "t",
            "y", "p", "e">>,
      workflow_type |->
          <<"f", "i", "l", "e", "s", ".", "a", "n", "a", "l", "y", "s",
            "i", "s", ".", "w", "o", "r", "k", "f", "l", "o", "w", "_",
            "t", "y", "p", "e">>,
      data_format |->
          <<"f", "i", "l", "e", "s", ".", "d", "a", "t", "a", "_", "f",
            "o", "r", "m", "a", "t">>,
      field |->
          <<"\"", "f", "i", "e", "l", "d", "\"", ":", "\"">>,
      value |->
          <<"\"", "v", "a", "l", "u", "e", "\"", ":">>,
      op_in |->
          <<"{", "\"", "o", "p", "\"", ":", "\"", "i", "n", "\"", ",">>,
      filters |->
          <<"f", "i", "l", "t", "e", "r", "s", "=">>,
      and_open |->
          <<"{", "\"", "o", "p", "\"", ":", "\"", "a", "n", "d", "\"", ",",
            "\"", "c", "o", "n", "t", "e", "n", "t", "\"", ":", "[">>,
      and_close |->
          <<"]", "}">>,
      BCRXML |->
          <<"\"", "B", "C", "R", " ", "X", "M", "L", "\"">>
    ]

\* pattern stands in text at position k.
Occurs(text, pattern, k) ==
    /\ k + Len(pattern) - 1 <= Len(text)
    /\ SubSeq(text, k, k + Len(pattern) - 1) = pattern

\* The first position from which on pattern stands in text, 0 if it stands
\* nowhere.
Find(text, pattern) ==
    IF \E k \in 1..Len(text) : Occurs(text, pattern, k)
    THEN CHOOSE k \in 1..Len(text) :
             /\ Occurs(text, pattern, k)
             /\ \A j \in 1..(k - 1) : ~Occurs(text, pattern, j)
    ELSE 0

\* What a server reads out of an encoded text: every "%" with its two
\* digits is the character of that code.
URLdecode(text) ==
    LET char == (<<"2", "0">> :> " ") @@ (<<"2", "2">> :> "\"")
                @@ (<<"2", "5">> :> "%") @@ (<<"7", "B">> :> "{")
                @@ (<<"7", "D">> :> "}")
    IN  flatten([k \in 1..Len(text) |->
                    IF /\ text[k] = "%"
                       /\ k + 2 <= Len(text)
                       /\ <<text[k + 1], text[k + 2]>> \in DOMAIN char
                    THEN <<char[<<text[k + 1], text[k + 2]>>]>>
                    ELSE IF (k > 1 /\ text[k - 1] = "%")
                            \/ (k > 2 /\ text[k - 2] = "%")
                    THEN <<>>
                    ELSE <<text[k]>>])

\* The filter of the URL the call returned, decoded: what stands between
\* "filters=" after the "?" and the first "&".
Filter ==
    LET q == Find(url.value, <<"?">>) + Len(FilterText.filters)
        e == Find(url.value, <<"&">>)
    IN  URLdecode(SubSeq(url.value, q + 1, e - 1))

\* The conditions of a filter, in order: each reaches from its {"op":"in",
\* to the "," before the next, the last to the closing of the filter; its
\* field is what stands in quotes after "field":, its value what stands
\* between "value": and its closing braces.
Conditions(text) ==
    LET starts == SelectSeq([k \in 1..Len(text) |-> k],
                            LAMBDA k : Occurs(text, FilterText.op_in, k))
        body(k) == SubSeq(text, starts[k],
                          IF k < Len(starts)
                          THEN starts[k + 1] - 2
                          ELSE Len(text) - Len(FilterText.and_close))
        field(c) ==
            LET from == Find(c, FilterText.field) + Len(FilterText.field)
                rest == SubSeq(c, from, Len(c))
            IN  SubSeq(rest, 1, Find(rest, <<"\"">>) - 1)
        value(c) ==
            LET from == Find(c, FilterText.value) + Len(FilterText.value)
            IN  SubSeq(c, from, Len(c) - 2)
    IN  [k \in 1..Len(starts) |->
            [text |-> body(k), field |-> field(body(k)),
             value |-> value(body(k))]]

\* C24: Query URL construction: for each data type RNAseq, miRNAs and
\* pre-miRNAs, gdcGetURL_new returns a URL whose filter is the conjunction
\* of exactly four conditions (project id, data category, data type,
\* workflow type); for data type Clinical the fourth condition is the data
\* format "BCR XML" instead of a workflow type; for any other data type no
\* URL is returned and an error is raised.
C24_QueryURL ==
    LET known == {PyStr(URLText.RNAseq), PyStr(URLText.miRNAs),
                  PyStr(URLText.Clinical), PyStr(URLText.pre_miRNAs)}
        clinical == url.data_type = PyStr(URLText.Clinical)
    IN  /\ pc = "url_done" =>
               LET conds == Conditions(Filter)
               IN  /\ url.data_type \in known
                   /\ Occurs(url.value, FilterText.filters,
                             Find(url.value, <<"?">>) + 1)
                   /\ Len(conds) = 4
                   /\ Filter = FilterText.and_open
                                   \o conds[1].text \o <<",">>
                                   \o conds[2].text \o <<",">>
                                   \o conds[3].text \o <<",">>
                                   \o conds[4].text
                                   \o FilterText.and_close
                   /\ conds[1].field = FilterText.project_id
                   /\ conds[1].value
                          = <<"[", "\"">> \o url.project_id \o <<"\"", "]">>
                   /\ conds[2].field = FilterText.data_category
                   /\ conds[3].field = FilterText.data_type
                   /\ conds[4].field = IF clinical
                                       THEN FilterText.data_format
                                       ELSE FilterText.workflow_type
                   /\ clinical => conds[4].value = FilterText.BCRXML
        /\ RaisedAt("get_url") =>
               url.value = <<>> /\ url.data_type \notin known
        /\ url.data_type \in known => ~RaisedAt("get_url")

\* A call for the clinical data of a project whose id holds a space has
\* returned its URL, with the space and the quotes encoded.
C24_Witness ==
    /\ pc = "url_done"
    /\ url.data_type = PyStr(URLText.Clinical)
    /\ url.project_id = <<"T", " ", "1">>
    /\ \E k \in 1..Len(url.value) : Occurs(url.value, <<"%", "2", "0">>, k)
    /\ Conditions(Filter)[4].value = FilterText.BCRXML

=============================================================================
